---- MODULE Spec2Model ----
(***************************************************************************)
(* Model of the CreditLinker SDK extraction pipeline: the Orchestrator     *)
(* (backend registry, lazy loading, fallback chain), the recognizers'      *)
(* batch path, the TransactionValidator and Pipeline.run.                  *)
(* Confidences are in tenths (0.7 is 7).                                   *)
(***************************************************************************)
EXTENDS Integers, Sequences, FiniteSets, TLC

VARIABLES
    \* ---- Orchestrator (sequential use) ----
    recognizer_registry,  \* names registered with register_recognizer
    fallback_chain,       \* ordered recognizer names
    loaded_models,        \* name -> instance id, 0 when not loaded
    image_crops,          \* argument of execute_with_fallback
    results,              \* list being built by execute_with_fallback
    result,               \* the loop's local `result` (Unbound before the first call)
    crop_i, rec_i,        \* positions of the two loops
    xpc,                  \* position in execute_with_fallback
    raised,               \* exception that left execute_with_fallback / run
    tried,                \* recognize() calls made for the crop being processed
    \* ---- Pipeline.run ----
    stage,                \* stage of Pipeline.run
    validation_level,     \* STRICT / MEDIUM / LENIENT
    detection_boxes,      \* number of regions the detector returned
    transactions,         \* output of the rules stage
    validation_result,    \* output of validate_transactions
    document,             \* the LedgerDocument returned, NoDocument before
    decodable,            \* whether the source image can be decoded
    run_error,            \* exception raised by Pipeline.run, "none" otherwise
    cause,                \* the stage failure behind run_error
    \* ---- Orchestrator (concurrent get_recognizer / unload_model) ----
    lock,                 \* holder of the model lock, NoThread when free
    detector_registry,    \* names registered with register_detector
    tpc, tkey, got,       \* per thread: position, requested model, instance received
    load_count,           \* per model: loads since it was last unloaded
    unloaded_at,          \* per model: value of next_instance when it was last unloaded
    next_instance,        \* instance ids handed out so far
    \* ---- recognize_batch ----
    images, batch_results, single_results, bpc,
    \* ---- cropper ----
    bounding_boxes,       \* argument of extract_regions
    padding,              \* argument of extract_regions
    regions,              \* CroppedRegions returned by extract_regions
    valid_crops,          \* CroppedRegions returned by filter_invalid_crops
    kpc,                  \* position of the cropper's caller
    \* ---- ConfidenceScorer ----
    scored_transactions,  \* argument of calculate_balance_accuracy
    balance_accuracy,     \* its outcome: a value in thousandths, or the exception raised
    fpc,                  \* position of the scorer's caller
    \* ---- LedgerParser ----
    text_rows,            \* recognized texts of the data rows, assigned to their columns
    today,                \* the wall-clock date of the run
    parsed,               \* outcome of parse_transactions: transactions, or the exception raised
    today_again,          \* the wall-clock date of a second run on the same rows
    parsed_again,         \* outcome of the second run
    ppc,                  \* position of the parser's caller
    \* ---- multi-line descriptions ----
    table_rows,           \* argument of handle_multiline_descriptions
    merged_rows,          \* the rows kept so far, continuation text merged in
    row_i,                \* index of the next row to look at
    mpc,                  \* position of the merge
    \* ---- beam search ----
    decoder,              \* log-probability of each next token after a given last token
    beam_width,
    max_length,
    beams,                \* (sequence, cumulative log prob), ascending by score
    completed,            \* history: every candidate that ended with EOS so far
    step,                 \* iterations of the loop taken
    best,                 \* the returned beam
    greedy,               \* what greedy decoding returns on the same crop
    dpc,                  \* position of beam_search_decode
    \* ---- document confidence ----
    ledger,               \* what the scorer is called on: confidences, report, component scores
    document_confidence,  \* result of compute_document_confidence, in thousandths
    recommendation,       \* recommendation of the confidence report
    gpc,                  \* position of the scorer's caller
    \* ---- parse_ledger_rows to confidence ----
    ledger_rows,          \* the rows of the table, cell texts as tokens
    detection_confidence, \* confidence of the detected boxes
    extraction,           \* transactions, validation report and document confidence
    epc,                  \* position of the extraction
    \* ---- import processing (web application) ----
    import_status,        \* per import id: status of its record, NoRecord before the upload
    import_file,          \* per import id: what parsing the stored file gives
    stored_transactions,  \* rows of the transaction table, in insertion order
    handlers,             \* per request slot: position and locals of POST /api/process/:importId
    process_count         \* per import id: calls of processImport made so far

ovars == <<recognizer_registry, fallback_chain, loaded_models, image_crops, results,
           result, crop_i, rec_i, xpc, raised, tried>>
pvars == <<stage, validation_level, detection_boxes, transactions, validation_result,
           document, decodable, run_error, cause>>
cvars == <<detector_registry, lock, tpc, tkey, got, load_count, unloaded_at,
           next_instance>>
bvars == <<images, batch_results, single_results, bpc>>
kvars == <<bounding_boxes, padding, regions, valid_crops, kpc>>
fvars == <<scored_transactions, balance_accuracy, fpc>>
lvars == <<text_rows, today, parsed, today_again, parsed_again, ppc>>
mvars == <<table_rows, merged_rows, row_i, mpc>>
dvars == <<decoder, beam_width, max_length, beams, completed, step, best, greedy, dpc>>
gvars == <<ledger, document_confidence, recommendation, gpc>>
evars == <<ledger_rows, detection_confidence, extraction, epc>>
ivars == <<import_status, import_file, stored_transactions, handlers, process_count>>
svars == <<kvars, fvars, lvars, mvars, dvars, gvars, evars, ivars>>
not_ivars == <<ovars, pvars, cvars, bvars, kvars, fvars, lvars, mvars, dvars, gvars, evars>>
not_evars == <<ovars, pvars, cvars, bvars, kvars, fvars, lvars, mvars, dvars, gvars, ivars>>
not_gvars == <<ovars, pvars, cvars, bvars, kvars, fvars, lvars, mvars, dvars, evars, ivars>>
not_kvars == <<ovars, pvars, cvars, bvars, fvars, lvars, mvars, dvars, gvars, evars, ivars>>
not_fvars == <<ovars, pvars, cvars, bvars, kvars, lvars, mvars, dvars, gvars, evars, ivars>>
not_lvars == <<ovars, pvars, cvars, bvars, kvars, fvars, mvars, dvars, gvars, evars, ivars>>
not_mvars == <<ovars, pvars, cvars, bvars, kvars, fvars, lvars, dvars, gvars, evars, ivars>>
not_dvars == <<ovars, pvars, cvars, bvars, kvars, fvars, lvars, mvars, gvars, evars, ivars>>
vars == <<ovars, pvars, cvars, bvars, svars>>

\* ------------------------------------------------------------------ bounds
MaxCrops == 2
MaxTxns == 2
MaxLoads == 3
MaxImages == 2
MaxBoxes == 3
MaxRows == 2
MaxLength == 2
MaxBeamWidth == 3
MaxResults == 2
MaxLedgerRows == 3

\* ------------------------------------------------------------------ constants
RecognizerNames == {"trocr", "paddle", "tesseract"}
DetectorNames == {"paddle"}
confidence_threshold == 7
CropIds == {"a", "b"}
Confidences == {5, 6, 7}
Unbound == [text |-> <<"", "">>, confidence |-> -1]
NoDocument == [none |-> TRUE]
NotDetected == -1
\* what a backend call can raise: inference failure, inference timeout
BackendErrors == {"InferenceError", "InferenceTimeout"}

SeqsUpTo(S, n) == UNION {[1..k -> S] : k \in 0..n}
Range(s) == {s[i] : i \in 1..Len(s)}
NoRepeat(s) == \A i, j \in 1..Len(s) : i # j => s[i] # s[j]
Max(S) == CHOOSE m \in S : \A x \in S : x <= m

\* RecognitionResult(text, confidence): the text stands for the backend's own
\* deterministic output on the crop.
RecognitionResult(name, crop, c) == [text |-> <<name, crop>>, confidence |-> c]

\* ------------------------------------------------------------------ Orchestrator
\* result.confidence >= confidence_threshold
AcceptsStrict(c) == c > confidence_threshold
Accepts(c) == c >= confidence_threshold

\* results.append(result) of the for-else branch ("All recognizers failed")
AllFailedDrop(rs, r) == rs
AllFailedAppend(rs, r) == Append(rs, r)

\* for recognizer_name in fallback_chain: the name tried at position i
ChainAt(chain, i) == chain[i]

\* loaded_models holds detectors and recognizers alike
RecKey(name) == <<"recognizer", name>>
DetKey(name) == <<"detector", name>>
ModelKeys == {RecKey(n) : n \in RecognizerNames} \cup {DetKey(n) : n \in DetectorNames}

\* get_recognizer / get_detector: "loads if not already loaded"
LoadAlways(key) == [loaded_models EXCEPT ![key] = next_instance + 1]
LoadedAfterGet(key) ==
    IF loaded_models[key] = 0
    THEN [loaded_models EXCEPT ![key] = next_instance + 1]
    ELSE loaded_models

\* The part of get_recognizer's effect the sequential caller sees
GetRecognizer(name) ==
    /\ loaded_models' = LoadedAfterGet(RecKey(name))
    /\ next_instance' = IF loaded_models[RecKey(name)] = 0 THEN next_instance + 1
                        ELSE next_instance
    /\ load_count' = IF loaded_models[RecKey(name)] = 0
                     THEN [load_count EXCEPT ![RecKey(name)] = @ + 1] ELSE load_count

register_recognizer(name) ==
    /\ xpc = "idle" /\ stage = "idle"
    /\ name \notin recognizer_registry
    /\ recognizer_registry' = recognizer_registry \cup {name}
    /\ UNCHANGED <<fallback_chain, loaded_models, image_crops, results, result,
                   crop_i, rec_i, xpc, raised, tried>>
    /\ UNCHANGED <<pvars, cvars, bvars, svars>>

set_fallback_chain(recognizers) ==
    /\ xpc = "idle" /\ stage = "idle"
    /\ recognizers # fallback_chain
    /\ fallback_chain' = recognizers
    /\ UNCHANGED <<recognizer_registry, loaded_models, image_crops, results, result,
                   crop_i, rec_i, xpc, raised, tried>>
    /\ UNCHANGED <<pvars, cvars, bvars, svars>>

\* Entry of execute_with_fallback: results = []
EnterFallback(crops) ==
    /\ image_crops' = crops
    /\ results' = <<>>
    /\ result' = Unbound
    /\ crop_i' = 1
    /\ rec_i' = 1
    /\ tried' = <<>>
    /\ xpc' = "crop"

execute_with_fallback(crops) ==
    /\ xpc = "idle" /\ stage = "idle"
    /\ EnterFallback(crops)
    /\ UNCHANGED <<recognizer_registry, fallback_chain, loaded_models, raised>>
    /\ UNCHANGED <<pvars, cvars, bvars, svars>>

\* for crop in image_crops: next crop, or return results (the loop's locals end
\* with the call)
NextCrop ==
    /\ xpc = "crop"
    /\ IF crop_i > Len(image_crops)
       THEN /\ xpc' = "returned"
            /\ result' = Unbound
            /\ tried' = <<>>
            /\ UNCHANGED rec_i
       ELSE /\ xpc' = "rec"
            /\ rec_i' = 1
            /\ tried' = <<>>
            /\ UNCHANGED result
    /\ UNCHANGED <<recognizer_registry, fallback_chain, loaded_models, image_crops,
                   results, crop_i, raised>>
    /\ UNCHANGED <<pvars, cvars, bvars, svars>>

\* recognizer = get_recognizer(recognizer_name): ModelNotFoundError if not registered
GetRecognizerFails ==
    /\ xpc = "rec"
    /\ rec_i <= Len(fallback_chain)
    /\ ChainAt(fallback_chain, rec_i) \notin recognizer_registry
    /\ xpc' = "raised"
    /\ raised' = "ModelNotFoundError"
    /\ UNCHANGED <<recognizer_registry, fallback_chain, loaded_models, image_crops,
                   results, result, crop_i, rec_i, tried>>
    /\ UNCHANGED <<pvars, cvars, bvars, svars>>

\* result = recognizer.recognize(crop) raises: nothing in the loop catches it
RecognizeRaises(err) ==
    /\ xpc = "rec"
    /\ rec_i <= Len(fallback_chain)
    /\ LET name == ChainAt(fallback_chain, rec_i) IN
         /\ name \in recognizer_registry
         /\ GetRecognizer(name)
         /\ tried' = Append(tried, [name |-> name, confidence |-> -1,
                                    late |-> (err = "InferenceTimeout"), error |-> TRUE])
    /\ xpc' = "raised"
    /\ raised' = err
    /\ UNCHANGED <<recognizer_registry, fallback_chain, image_crops, results, result,
                   crop_i, rec_i>>
    /\ UNCHANGED <<pvars, bvars, svars, detector_registry, lock, tpc, tkey, got, unloaded_at>>

\* result = recognizer.recognize(crop) returns with confidence c; `late` records
\* that the call took longer than pipeline.timeout_seconds, which the loop never reads
Recognize(c, late) ==
    /\ xpc = "rec"
    /\ rec_i <= Len(fallback_chain)
    /\ LET name == ChainAt(fallback_chain, rec_i)
           r == RecognitionResult(name, image_crops[crop_i], c)
       IN
         /\ name \in recognizer_registry
         /\ GetRecognizer(name)
         /\ result' = r
         /\ tried' = Append(tried, [name |-> name, confidence |-> c, late |-> late,
                                    error |-> FALSE])
         /\ IF Accepts(c)
            THEN /\ results' = Append(results, r)
                 /\ crop_i' = crop_i + 1
                 /\ xpc' = "crop"
                 /\ UNCHANGED rec_i
            ELSE /\ rec_i' = rec_i + 1
                 /\ UNCHANGED <<results, crop_i, xpc>>
    /\ UNCHANGED <<recognizer_registry, fallback_chain, image_crops, raised>>
    /\ UNCHANGED <<pvars, bvars, svars, detector_registry, lock, tpc, tkey, got, unloaded_at>>

\* else: results.append(result)  -- "Use best available (last tried)"
AllRecognizersFailed ==
    /\ xpc = "rec"
    /\ rec_i > Len(fallback_chain)
    /\ IF result = Unbound
       THEN /\ xpc' = "raised"
            /\ raised' = "UnboundLocalError"
            /\ UNCHANGED <<results, crop_i>>
       ELSE /\ results' = AllFailedAppend(results, result)
            /\ crop_i' = crop_i + 1
            /\ xpc' = "crop"
            /\ UNCHANGED raised
    /\ UNCHANGED <<recognizer_registry, fallback_chain, loaded_models, image_crops,
                   result, rec_i, tried>>
    /\ UNCHANGED <<pvars, cvars, bvars, svars>>

FallbackLoop ==
    \/ NextCrop
    \/ GetRecognizerFails
    \/ \E err \in BackendErrors : RecognizeRaises(err)
    \/ \E c \in Confidences, late \in BOOLEAN : Recognize(c, late)
    \/ AllRecognizersFailed

\* ------------------------------------------------------------------ initial states
Threads == {"t1", "t2"}
NoThread == "none"
NoReport == [valid |-> TRUE, errors |-> <<>>, warnings |-> <<>>]

\* Orchestrator.__init__
InitO ==
    /\ recognizer_registry = {}
    /\ fallback_chain = <<>>
    /\ loaded_models = [k \in ModelKeys |-> 0]
    /\ image_crops = <<>>
    /\ results = <<>>
    /\ result = Unbound
    /\ crop_i = 1
    /\ rec_i = 1
    /\ xpc = "idle"
    /\ raised = "none"
    /\ tried = <<>>

InitP ==
    /\ stage = "idle"
    /\ validation_level = "STRICT"
    /\ detection_boxes = NotDetected
    /\ transactions = <<>>
    /\ validation_result = NoReport
    /\ document = NoDocument
    /\ decodable = TRUE
    /\ run_error = "none"
    /\ cause = "none"

InitC ==
    /\ detector_registry = {}
    /\ lock = NoThread
    /\ tpc = [t \in Threads |-> "idle"]
    /\ tkey = [t \in Threads |-> RecKey("trocr")]
    /\ got = [t \in Threads |-> 0]
    /\ load_count = [k \in ModelKeys |-> 0]
    /\ unloaded_at = [k \in ModelKeys |-> 0]
    /\ next_instance = 0

InitB ==
    /\ images = <<>>
    /\ batch_results = <<>>
    /\ single_results = <<>>
    /\ bpc = "idle"

InitK ==
    /\ bounding_boxes = <<>>
    /\ padding = 0
    /\ regions = <<>>
    /\ valid_crops = <<>>
    /\ kpc = "idle"

Chains == {c \in SeqsUpTo(RecognizerNames, Cardinality(RecognizerNames)) : NoRepeat(c)}

\* ------------------------------------------------------------------ specifications
NotScored == [raised |-> "none", value |-> 0]

InitF ==
    /\ scored_transactions = <<>>
    /\ balance_accuracy = NotScored
    /\ fpc = "idle"

NoDay == <<0, 0, 0>>
NotParsed == [raised |-> "none", transactions |-> <<>>]

InitL ==
    /\ text_rows = <<>>
    /\ today = NoDay
    /\ parsed = NotParsed
    /\ today_again = NoDay
    /\ parsed_again = NotParsed
    /\ ppc = "idle"

InitM ==
    /\ table_rows = <<>>
    /\ merged_rows = <<>>
    /\ row_i = 1
    /\ mpc = "idle"

NoBeam == [sequence |-> <<>>, score |-> 0]

InitD ==
    /\ decoder = <<>>
    /\ beam_width = 1
    /\ max_length = 1
    /\ beams = <<>>
    /\ completed = {}
    /\ step = 0
    /\ best = NoBeam
    /\ greedy = NoBeam
    /\ dpc = "idle"

NoLedger == [none |-> TRUE]

InitG ==
    /\ ledger = NoLedger
    /\ document_confidence = 0
    /\ recommendation = ""
    /\ gpc = "idle"

NoExtraction == [none |-> TRUE]

InitE ==
    /\ ledger_rows = <<>>
    /\ detection_confidence = 0
    /\ extraction = NoExtraction
    /\ epc = "idle"

\* import processing: no import uploaded, no request in flight.  The model is
\* finite without a counter: an import is only processed while it is PENDING,
\* by at most as many handlers as there are request slots.
Imports == {1, 2}

Requests == {"r1", "r2"}

NoRecord == "NONE"

NoFile == [none |-> TRUE]

NoImport == 0

IdleHandler ==
    [pc |-> "idle", importId |-> NoImport, unique |-> <<>>, newTransactions |-> <<>>,
     finalStatus |-> "", response |-> 0]

InitI ==
    /\ import_status = [i \in Imports |-> NoRecord]
    /\ import_file = [i \in Imports |-> NoFile]
    /\ stored_transactions = <<>>
    /\ handlers = [r \in Requests |-> IdleHandler]
    /\ process_count = [i \in Imports |-> 0]

InitS == InitK /\ InitF /\ InitL /\ InitM /\ InitD /\ InitG /\ InitE /\ InitI

Init == InitO /\ InitP /\ InitC /\ InitB /\ InitS

NextOrch ==
    \/ \E name \in RecognizerNames : register_recognizer(name)
    \/ \E chain \in Chains : set_fallback_chain(chain)
    \/ \E crops \in SeqsUpTo(CropIds, MaxCrops) : execute_with_fallback(crops)
    \/ FallbackLoop

SpecOrch == Init /\ [][NextOrch]_vars

\* ------------------------------------------------------------------ claims: fallback chain
\* The crop at index crop_i - 1 has just been given its result; `tried` holds the
\* recognize() calls that were made for it.
JustCompleted == xpc = "crop" /\ crop_i > 1

\* C1: for every crop the backends are tried in chain order, and the result
\* returned is that of the first backend whose confidence is >= the threshold;
\* no backend after it is consulted for the crop.
C1_FirstAcceptedWins ==
    /\ \A j \in 1..Len(tried) : tried[j].name = fallback_chain[j]
    /\ JustCompleted =>
         \A j \in 1..Len(tried) :
            tried[j].confidence >= confidence_threshold =>
               /\ j = Len(tried)
               /\ results[crop_i - 1] =
                     RecognitionResult(fallback_chain[j], image_crops[crop_i - 1],
                                       tried[j].confidence)

\* Primary returned 0.5, secondary >= 0.7, a third backend was configured and not
\* consulted: the secondary's result is the one returned.
C1_Witness ==
    /\ JustCompleted
    /\ Len(fallback_chain) = 3
    /\ Len(tried) = 2
    /\ tried[1].confidence = 5
    /\ tried[2].confidence >= confidence_threshold
    /\ results[crop_i - 1].text[1] = fallback_chain[2]

\* C2: if no backend of the chain reaches the threshold for a crop, the result
\* returned for it is the highest-confidence result obtained from the chain, and
\* it carries a low-confidence flag.
C2_BestOfChainFlagged ==
    (/\ JustCompleted
     /\ \A j \in 1..Len(tried) : tried[j].confidence < confidence_threshold)
    => /\ results[crop_i - 1].confidence =
             Max({tried[j].confidence : j \in 1..Len(tried)})
       /\ "low_confidence" \in DOMAIN results[crop_i - 1]

C10_TimeoutFallsBack ==
    (JustCompleted \/ xpc = "raised") =>
        \A j \in 1..Len(tried) :
            (tried[j].late /\ j < Len(fallback_chain)) => j < Len(tried)

\* ------------------------------------------------------------------ concurrent loading
\* "Uses locks for model loading/unloading": a thread enters the load path only
\* while no other thread holds the lock.
LockIgnored == TRUE
LockAvailable == lock = NoThread

Registered(key) ==
    IF key[1] = "recognizer" THEN key[2] \in recognizer_registry
    ELSE key[2] \in detector_registry

other_ovars == <<fallback_chain, image_crops, results, result, crop_i, rec_i, xpc,
                 raised, tried>>

register_detector(name) ==
    /\ xpc = "idle" /\ stage = "idle"
    /\ name \notin detector_registry
    /\ detector_registry' = detector_registry \cup {name}
    /\ UNCHANGED <<ovars, pvars, bvars, svars>>
    /\ UNCHANGED <<lock, tpc, tkey, got, load_count, unloaded_at, next_instance>>

\* A thread calls get_detector(name) / get_recognizer(name)
GetModelCall(t, key) ==
    /\ tpc[t] \in {"idle", "returned", "raised"}
    /\ next_instance < MaxLoads
    /\ tkey' = [tkey EXCEPT ![t] = key]
    /\ got' = [got EXCEPT ![t] = 0]
    /\ tpc' = [tpc EXCEPT ![t] = IF Registered(key) THEN "acquire" ELSE "raised"]
    /\ UNCHANGED <<ovars, pvars, bvars, svars>>
    /\ UNCHANGED <<detector_registry, lock, load_count, unloaded_at, next_instance>>

AcquireLock(t) ==
    /\ tpc[t] = "acquire"
    /\ LockAvailable
    /\ lock' = t
    /\ tpc' = [tpc EXCEPT ![t] = "check"]
    /\ UNCHANGED <<ovars, pvars, bvars, svars>>
    /\ UNCHANGED <<detector_registry, tkey, got, load_count, unloaded_at, next_instance>>

\* if name not in self.loaded_models
CheckLoaded(t) ==
    /\ tpc[t] = "check"
    /\ tpc' = [tpc EXCEPT ![t] = IF loaded_models[tkey[t]] = 0 THEN "load" ELSE "release"]
    /\ got' = [got EXCEPT ![t] = loaded_models[tkey[t]]]
    /\ UNCHANGED <<ovars, pvars, bvars, svars>>
    /\ UNCHANGED <<detector_registry, lock, tkey, load_count, unloaded_at, next_instance>>

\* self.loaded_models[name] = model_class(config)
LoadModel(t) ==
    /\ tpc[t] = "load"
    /\ loaded_models' = LoadAlways(tkey[t])
    /\ next_instance' = next_instance + 1
    /\ load_count' = [load_count EXCEPT ![tkey[t]] = @ + 1]
    /\ got' = [got EXCEPT ![t] = next_instance + 1]
    /\ tpc' = [tpc EXCEPT ![t] = "release"]
    /\ UNCHANGED <<recognizer_registry, other_ovars, pvars, bvars, svars>>
    /\ UNCHANGED <<detector_registry, lock, tkey, unloaded_at>>

ReleaseLock(t) ==
    /\ tpc[t] = "release"
    /\ lock' = IF lock = t THEN NoThread ELSE lock
    /\ tpc' = [tpc EXCEPT ![t] = "returned"]
    /\ UNCHANGED <<ovars, pvars, bvars, svars>>
    /\ UNCHANGED <<detector_registry, tkey, got, load_count, unloaded_at, next_instance>>

\* unload_model(model_name), taken under the same lock
unload_model(key) ==
    /\ LockAvailable
    /\ loaded_models[key] # 0
    /\ loaded_models' = [loaded_models EXCEPT ![key] = 0]
    /\ load_count' = [load_count EXCEPT ![key] = 0]
    /\ unloaded_at' = [unloaded_at EXCEPT ![key] = next_instance]
    /\ UNCHANGED <<recognizer_registry, other_ovars, pvars, bvars, svars>>
    /\ UNCHANGED <<detector_registry, lock, tpc, tkey, got, next_instance>>

NextLoad ==
    \/ \E name \in RecognizerNames : register_recognizer(name)
    \/ \E name \in DetectorNames : register_detector(name)
    \/ \E t \in Threads, key \in ModelKeys : GetModelCall(t, key)
    \/ \E t \in Threads : AcquireLock(t)
    \/ \E t \in Threads : CheckLoaded(t)
    \/ \E t \in Threads : LoadModel(t)
    \/ \E t \in Threads : ReleaseLock(t)
    \/ \E key \in ModelKeys : unload_model(key)

SpecLoad == Init /\ [][NextLoad]_vars

\* C4: under any interleaving of get_detector / get_recognizer calls a backend
\* is loaded at most once while it remains loaded, and all callers served since
\* its last unload hold the one loaded instance.
C4_LoadedOnce ==
    /\ \A key \in ModelKeys : load_count[key] <= 1
    /\ \A t \in Threads :
          (tpc[t] = "returned" /\ got[t] > unloaded_at[tkey[t]])
             => got[t] = loaded_models[tkey[t]]

\* Two threads asked for the same backend while it was not loaded; one load
\* happened, and the second thread, inside the lock, found the first one's instance.
C4_Witness ==
    /\ tkey["t1"] = tkey["t2"]
    /\ tpc["t1"] = "returned" /\ got["t1"] # 0
    /\ tpc["t2"] = "release" /\ lock = "t2" /\ got["t2"] = got["t1"]
    /\ load_count[tkey["t1"]] = 1
    /\ next_instance = 1

\* ------------------------------------------------------------------ TransactionValidator
\* Amounts are in cents; NoBalance stands for a balance that is not stated.
NoBalance == -100
BalanceTolerance == 1
Dates == {0, 1, 2}
Descriptions == {"ATM", "POS"}
Debits == {-1, 0, 2}
Credits == {0, 2}
Balances == {NoBalance, 5}
Txns == [date : Dates, description : Descriptions, debit : Debits, credit : Credits,
         balance : Balances]

ValidationError(kind, index) == [kind |-> kind, transaction_index |-> index]

\* validate_date(txn): the date is a valid datetime in the accepted range
\* (date 0 stands for a date outside it)
validate_date(txn, i) ==
    IF txn.date = 0 THEN <<ValidationError("date", i)>> ELSE <<>>

\* validate_amount(txn): amounts are not negative, and debit and credit are not
\* both non-zero in one transaction
validate_amount(txn, i) ==
    IF txn.debit < 0 \/ txn.credit < 0 \/ (txn.debit # 0 /\ txn.credit # 0)
    THEN <<ValidationError("amount", i)>> ELSE <<>>

\* for txn in txns: errors.extend(validate_date(txn)); errors.extend(validate_amount(txn))
RECURSIVE PerTransactionErrors(_, _)
PerTransactionErrors(txns, i) ==
    IF i > Len(txns) THEN <<>>
    ELSE validate_date(txns[i], i) \o validate_amount(txns[i], i)
            \o PerTransactionErrors(txns, i + 1)

Abs(x) == IF x < 0 THEN -x ELSE x

\* Balance[i-1] + Credit[i] - Debit[i]
ExpectedBalance(txns, i) == txns[i - 1].balance + txns[i].credit - txns[i].debit

BalanceMismatchAtTolerance(txns, i) ==
    /\ i > 1
    /\ txns[i].balance # NoBalance
    /\ txns[i - 1].balance # NoBalance
    /\ Abs(txns[i].balance - ExpectedBalance(txns, i)) >= BalanceTolerance

\* validate_balance_consistency: running balance against the stated balance
BalanceMismatch(txns, i) ==
    /\ i > 1
    /\ txns[i].balance # NoBalance
    /\ txns[i - 1].balance # NoBalance
    /\ Abs(txns[i].balance - (txns[i - 1].balance + txns[i].credit - txns[i].debit))
          > BalanceTolerance

\* "Balance mismatch: Expected 45000.00, got 47000.00 (diff: 2000.00)"
BalanceError(txns, i) ==
    [kind |-> "balance", transaction_index |-> i,
     expected |-> ExpectedBalance(txns, i),
     actual |-> txns[i].balance,
     diff |-> Abs(txns[i].balance - ExpectedBalance(txns, i))]

RECURSIVE BalanceErrorsFrom(_, _)
BalanceErrorsFrom(txns, i) ==
    IF i > Len(txns) THEN <<>>
    ELSE (IF BalanceMismatch(txns, i) THEN <<BalanceError(txns, i)>> ELSE <<>>)
            \o BalanceErrorsFrom(txns, i + 1)

validate_balance_consistency(txns) == BalanceErrorsFrom(txns, 1)

\* detect_duplicates: same date, amount and description as an earlier transaction
IsDuplicate(txns, j) ==
    \E i \in 1..(j - 1) :
        /\ txns[i].date = txns[j].date
        /\ txns[i].debit = txns[j].debit
        /\ txns[i].credit = txns[j].credit
        /\ txns[i].description = txns[j].description

RECURSIVE DuplicatesFrom(_, _)
DuplicatesFrom(txns, j) ==
    IF j > Len(txns) THEN <<>>
    ELSE (IF IsDuplicate(txns, j) THEN <<ValidationError("duplicate", j)>> ELSE <<>>)
            \o DuplicatesFrom(txns, j + 1)

detect_duplicates(txns) == DuplicatesFrom(txns, 1)

\* validate_transactions: every finding, the duplicates included, goes to `errors`;
\* `warnings` stays empty
validate_transactions(txns) ==
    LET errors == PerTransactionErrors(txns, 1)
                     \o validate_balance_consistency(txns)
                     \o detect_duplicates(txns)
        warnings == <<>>
    IN [valid |-> Len(errors) = 0, errors |-> errors, warnings |-> warnings]

\* A caller hands a transaction list to the validator
Validate(txns) ==
    /\ stage = "idle" /\ xpc = "idle"
    /\ transactions = <<>> /\ validation_result = NoReport
    /\ txns # <<>>
    /\ transactions' = txns
    /\ validation_result' = validate_transactions(txns)
    /\ UNCHANGED <<stage, validation_level, detection_boxes, document, decodable,
                   run_error, cause>>
    /\ UNCHANGED <<ovars, cvars, bvars, svars>>

NextValidate == \E txns \in SeqsUpTo(Txns, MaxTxns) : Validate(txns)

SpecValidate == Init /\ [][NextValidate]_vars

\* C8: duplicate detection only adds warnings: transactions that agree in date,
\* amount and description produce a warning and no error, and the report stays
\* valid whenever no other check reports an error.
C8_DuplicatesAreWarnings ==
    LET dups == {j \in 1..Len(transactions) : IsDuplicate(transactions, j)}
        others == PerTransactionErrors(transactions, 1)
                     \o validate_balance_consistency(transactions)
    IN  dups # {} =>
          /\ \A j \in dups :
                /\ \E w \in 1..Len(validation_result.warnings) :
                      validation_result.warnings[w].transaction_index = j
                /\ \A e \in 1..Len(validation_result.errors) :
                      validation_result.errors[e].kind # "duplicate"
          /\ others = <<>> => validation_result.valid

\* The date at index i comes before the date of the transaction above it
DateOutOfSequence(txns, i) ==
    /\ i > 1
    /\ txns[i].date # 0 /\ txns[i - 1].date # 0
    /\ txns[i].date < txns[i - 1].date

\* C17: every check (date sequence, balance equation, amount sanity, duplicates,
\* required fields) runs on every input, also after an earlier check has reported
\* errors, and the one report holds the findings of all of them.
C17_AllChecksReported ==
    LET findings == validation_result.errors \o validation_result.warnings
        Reported(kinds, i) == \E f \in 1..Len(findings) :
                       findings[f].kind \in kinds /\ findings[f].transaction_index = i
    IN  \A i \in 1..Len(transactions) :
           /\ validate_amount(transactions[i], i) # <<>> => Reported({"amount"}, i)
           /\ BalanceMismatch(transactions, i) => Reported({"balance"}, i)
           /\ IsDuplicate(transactions, i) => Reported({"duplicate"}, i)
           /\ transactions[i].date = 0 => Reported({"date"}, i)
           /\ DateOutOfSequence(transactions, i) => Reported({"date", "date_sequence"}, i)

default_detector == "paddle"
ValidationLevels == {"STRICT", "MEDIUM", "LENIENT"}
LoadErrors == {"CorruptedImageError", "UnsupportedFormatError"}
TxnOk == [date |-> 1, description |-> "ATM", debit |-> 0, credit |-> 2,
          balance |-> NoBalance]
TxnBadDate == [date |-> 0, description |-> "POS", debit |-> 2, credit |-> 0,
               balance |-> NoBalance]
PipelineTxns == {TxnOk, TxnBadDate}

\* Stage 1: the loader decodes the source or raises
LoadAlwaysSucceeds == TRUE
LoadSucceeds == decodable

\* "Critical errors ... No text detected in entire image -> cannot proceed"
ZeroRegionsRecoverable(n) == FALSE
ZeroRegionsCritical(n) == n = 0

\* "STRICT: Fail on any error / MEDIUM: Warn on errors, allow proceed /
\*  LENIENT: Log errors, continue processing"
FailsAtAnyLevel(level, report) == ~report.valid
FailsValidation(level, report) == level = "STRICT" /\ ~report.valid

\* "Raises: PipelineError: If any stage fails critically"
StageFails(e) ==
    /\ stage' = "raised"
    /\ run_error' = "PipelineError"
    /\ cause' = e
    /\ UNCHANGED document

run(dec) ==
    /\ stage = "idle" /\ xpc = "idle"
    /\ transactions = <<>>
    /\ stage' = "LOAD"
    /\ decodable' = dec
    /\ UNCHANGED <<validation_level, detection_boxes, transactions, validation_result,
                   document, run_error, cause>>
    /\ UNCHANGED <<ovars, cvars, bvars, svars>>

StageLoad ==
    /\ stage = "LOAD"
    /\ IF LoadSucceeds
       THEN /\ stage' = "PREPROCESS"
            /\ UNCHANGED <<document, run_error, cause>>
       ELSE \E e \in LoadErrors : StageFails(e)
    /\ UNCHANGED <<validation_level, detection_boxes, transactions, validation_result,
                   decodable>>
    /\ UNCHANGED <<ovars, cvars, bvars, svars>>

StagePreprocess ==
    /\ stage = "PREPROCESS"
    /\ stage' = "DETECT"
    /\ UNCHANGED <<validation_level, detection_boxes, transactions, validation_result,
                   document, decodable, run_error, cause>>
    /\ UNCHANGED <<ovars, cvars, bvars, svars>>

\* Stage 3: detector = get_detector(); boxes = detector.detect(image)
StageDetect(n) ==
    /\ stage = "DETECT"
    /\ IF default_detector \notin detector_registry
       THEN /\ StageFails("ModelNotFoundError")
            /\ UNCHANGED <<detection_boxes, loaded_models, next_instance, load_count>>
       ELSE /\ loaded_models' = LoadedAfterGet(DetKey(default_detector))
            /\ next_instance' = IF loaded_models[DetKey(default_detector)] = 0
                                THEN next_instance + 1 ELSE next_instance
            /\ load_count' = IF loaded_models[DetKey(default_detector)] = 0
                             THEN [load_count EXCEPT ![DetKey(default_detector)] = @ + 1]
                             ELSE load_count
            /\ detection_boxes' = n
            /\ IF ZeroRegionsCritical(n)
               THEN StageFails("NoTextDetected")
               ELSE /\ stage' = "CROP"
                    /\ UNCHANGED <<document, run_error, cause>>
    /\ UNCHANGED <<validation_level, transactions, validation_result, decodable>>
    /\ UNCHANGED <<recognizer_registry, other_ovars, bvars, svars>>
    /\ UNCHANGED <<detector_registry, lock, tpc, tkey, got, unloaded_at>>

\* Stage 4 hands the crops that survive to Stage 5, which starts the fallback loop
StageCrop(crops) ==
    /\ stage = "CROP"
    /\ Len(crops) <= detection_boxes
    /\ stage' = "RECOGNIZE"
    /\ EnterFallback(crops)
    /\ UNCHANGED <<recognizer_registry, fallback_chain, loaded_models, raised>>
    /\ UNCHANGED <<validation_level, detection_boxes, transactions, validation_result,
                   document, decodable, run_error, cause>>
    /\ UNCHANGED <<cvars, bvars, svars>>

StageRecognizeDone ==
    /\ stage = "RECOGNIZE"
    /\ xpc \in {"returned", "raised"}
    /\ IF xpc = "raised"
       THEN StageFails(raised)
       ELSE /\ stage' = "RECONSTRUCT"
            /\ UNCHANGED <<document, run_error, cause>>
    /\ UNCHANGED <<validation_level, detection_boxes, transactions, validation_result,
                   decodable>>
    /\ UNCHANGED <<ovars, cvars, bvars, svars>>

StageReconstruct ==
    /\ stage = "RECONSTRUCT"
    /\ stage' = "APPLY_RULES"
    /\ UNCHANGED <<validation_level, detection_boxes, transactions, validation_result,
                   document, decodable, run_error, cause>>
    /\ UNCHANGED <<ovars, cvars, bvars, svars>>

ApplyRulesSkipsValidate(txns) ==
    /\ stage = "APPLY_RULES"
    /\ Len(txns) <= Len(results)
    /\ transactions' = txns
    /\ stage' = "FINALIZE"
    /\ UNCHANGED <<validation_level, detection_boxes, validation_result, document,
                   decodable, run_error, cause>>
    /\ UNCHANGED <<ovars, cvars, bvars, svars>>

\* Stage 7: rows that do not parse are skipped
StageApplyRules(txns) ==
    /\ stage = "APPLY_RULES"
    /\ Len(txns) <= Len(results)
    /\ transactions' = txns
    /\ stage' = "VALIDATE"
    /\ UNCHANGED <<validation_level, detection_boxes, validation_result, document,
                   decodable, run_error, cause>>
    /\ UNCHANGED <<ovars, cvars, bvars, svars>>

\* Stage 8, and "Raises: ValidationError: If extracted data fails validation"
StageValidate(level) ==
    /\ stage = "VALIDATE"
    /\ validation_level' = level
    /\ validation_result' = validate_transactions(transactions)
    /\ IF FailsValidation(level, validate_transactions(transactions))
       THEN /\ stage' = "raised"
            /\ run_error' = "ValidationError"
            /\ cause' = "ValidationError"
       ELSE /\ stage' = "FINALIZE"
            /\ UNCHANGED <<run_error, cause>>
    /\ UNCHANGED <<detection_boxes, transactions, document, decodable>>
    /\ UNCHANGED <<ovars, cvars, bvars, svars>>

\* Stage 9: compute_document_confidence divides by len(detection_boxes) and by
\* len(recognition_results)
StageFinalize ==
    /\ stage = "FINALIZE"
    /\ IF detection_boxes = 0 \/ Len(results) = 0
       THEN StageFails("ZeroDivisionError")
       ELSE /\ document' = [transactions |-> transactions,
                            validation_report |-> validation_result]
            /\ stage' = "returned"
            /\ UNCHANGED <<run_error, cause>>
    /\ UNCHANGED <<validation_level, detection_boxes, transactions, validation_result,
                   decodable>>
    /\ UNCHANGED <<ovars, cvars, bvars, svars>>

NextPipe ==
    \/ \E name \in RecognizerNames : register_recognizer(name)
    \/ \E name \in DetectorNames : register_detector(name)
    \/ \E chain \in Chains : set_fallback_chain(chain)
    \/ \E dec \in BOOLEAN : run(dec)
    \/ StageLoad
    \/ StagePreprocess
    \/ \E n \in 0..MaxCrops : StageDetect(n)
    \/ \E crops \in SeqsUpTo(CropIds, MaxCrops) : StageCrop(crops)
    \/ FallbackLoop
    \/ StageRecognizeDone
    \/ StageReconstruct
    \/ \E txns \in SeqsUpTo(PipelineTxns, MaxCrops) : StageApplyRules(txns)
    \/ \E level \in ValidationLevels : StageValidate(level)
    \/ StageFinalize

SpecPipe == Init /\ [][NextPipe]_vars

NoLoadableBackend ==
    /\ stage \notin {"idle", "LOAD", "PREPROCESS", "DETECT", "CROP"}
    /\ image_crops # <<>>
    /\ fallback_chain # <<>>
    /\ \A i \in 1..Len(fallback_chain) : fallback_chain[i] \notin recognizer_registry

\* C6: if no backend is usable (detector or every recognizer of the chain fails to
\* load or infer) or the source does not decode, Pipeline.run ends with a typed
\* error and no LedgerDocument: a document is returned only from a decoded source
\* with working backends.
C6_FatalAbortsTyped ==
    /\ stage = "returned" =>
          /\ document # NoDocument
          /\ decodable
          /\ default_detector \in detector_registry
          /\ \A i \in 1..Len(results) : results[i].text[1] \in recognizer_registry
    /\ stage # "returned" => document = NoDocument
    /\ stage = "raised" => run_error \in {"PipelineError", "ValidationError"}
    /\ (NoLoadableBackend \/ ~decodable) => stage \notin {"RECONSTRUCT", "APPLY_RULES",
                                                         "VALIDATE", "FINALIZE", "returned"}
    /\ (stage = "RECOGNIZE" /\ tried # <<>> /\ tried[Len(tried)].error)
          => xpc = "raised"
    /\ (stage = "raised" /\ cause \in BackendErrors \cup {"ModelNotFoundError"} \cup LoadErrors)
          => run_error = "PipelineError"

\* A chain of two recognizers, neither of them registered: the run was aborted at
\* the first crop.
C6_Witness ==
    /\ NoLoadableBackend
    /\ Len(fallback_chain) >= 2
    /\ decodable
    /\ stage = "raised"
    /\ run_error = "PipelineError"
    /\ cause = "ModelNotFoundError"

StageOrder == <<"LOAD", "PREPROCESS", "DETECT", "CROP", "RECOGNIZE", "RECONSTRUCT",
                "APPLY_RULES", "VALIDATE", "FINALIZE">>

\* C14: the stages run in the fixed order LOAD, PREPROCESS, DETECT, CROP,
\* RECOGNIZE, RECONSTRUCT, APPLY RULES, VALIDATE, FINALIZE, none starting before
\* its predecessor has finished, and a LedgerDocument is produced only after
\* VALIDATE has completed.
C14_FixedStageOrder ==
    [][/\ stage' # stage =>
            \/ stage = "idle" /\ stage' = StageOrder[1]
            \/ \E i \in 1..(Len(StageOrder) - 1) :
                  stage = StageOrder[i] /\ stage' = StageOrder[i + 1]
            \/ stage = StageOrder[Len(StageOrder)] /\ stage' = "returned"
            \/ \E i \in 1..Len(StageOrder) : stage = StageOrder[i] /\ stage' = "raised"
       /\ stage' = "RECONSTRUCT" /\ stage # stage' => xpc = "returned"
       /\ document' # document =>
            /\ stage = "FINALIZE" /\ stage' = "returned"
            /\ validation_result = validate_transactions(transactions)
            /\ document'.validation_report = validation_result
      ]_vars

\* A run went through all nine stages and returned a document with a transaction.
C14_Witness ==
    /\ stage = "returned"
    /\ document # NoDocument
    /\ Len(transactions) >= 1
    /\ Len(results) >= 1

\* ------------------------------------------------------------------ TrOCRRecognizer
\* An image is a crop of some size carrying some ink; tensors are sequences of
\* rows, one row per image of the batch.
Sizes == {"small", "large"}
Inks == {"blank", "digits", "words"}
Images == [size : Sizes, ink : Inks]

\* normalizer.normalize(image, (384, 384)): one row at the target size, whatever
\* the size of the image was
normalize(image) == << [shape |-> "384x384", pixel_values |-> image.ink] >>

\* np.concatenate(tensors, axis=0); it raises ValueError on an empty list
RECURSIVE concatenate(_)
concatenate(tensors) ==
    IF tensors = <<>> THEN <<>>
    ELSE Head(tensors) \o concatenate(Tail(tensors))

\* encoder_session.run(['last_hidden_state'], {'pixel_values': tensor})[0]: one
\* hidden state per row of the batch
encoder_session_run(tensor) ==
    [i \in 1..Len(tensor) |-> [last_hidden_state |-> tensor[i].pixel_values]]

\* beam_search_decode / greedy_decode on the hidden state of one row
decode(encoder_outputs) ==
    LET h == encoder_outputs[1].last_hidden_state
    IN  [token_ids |-> IF h = "blank" THEN <<>> ELSE <<h>>,
         score |-> CASE h = "blank" -> 5 [] h = "digits" -> 7 [] OTHER -> 6]

\* _decode_tokens(token_ids)
_decode_tokens(token_ids) == [i \in 1..Len(token_ids) |-> <<"text", token_ids[i]>>]

\* TrOCRRecognizer.recognize(image)
recognize(image) ==
    LET tensor == normalize(image)
        encoder_outputs == encoder_session_run(tensor)
        d == decode(encoder_outputs)
    IN  [text |-> _decode_tokens(d.token_ids), confidence |-> d.score]

\* the loop of recognize_batch: encoder_outputs[i:i+1] decoded for each i
BatchDecode(encoder_outputs, n) ==
    [i \in 1..n |->
        LET encoder_out == SubSeq(encoder_outputs, i, i)
            d == decode(encoder_out)
        IN  [text |-> _decode_tokens(d.token_ids), confidence |-> d.score]]

\* The caller picks the list of images.
Submit(imgs) ==
    /\ bpc = "idle"
    /\ images' = imgs
    /\ bpc' = "each"
    /\ UNCHANGED <<batch_results, single_results, ovars, pvars, cvars, svars>>

\* recognize() on the next image of the list, alone
RecognizeEach ==
    /\ bpc = "each"
    /\ Len(single_results) < Len(images)
    /\ single_results' = Append(single_results, recognize(images[Len(single_results) + 1]))
    /\ UNCHANGED <<images, batch_results, bpc, ovars, pvars, cvars, svars>>

\* TrOCRRecognizer.recognize_batch(images)
recognize_batch ==
    /\ bpc = "each"
    /\ Len(single_results) = Len(images)
    /\ LET tensors == [i \in 1..Len(images) |-> normalize(images[i])]
       IN  IF tensors = <<>>
           THEN /\ bpc' = "ValueError"
                /\ UNCHANGED batch_results
           ELSE /\ batch_results' =
                       BatchDecode(encoder_session_run(concatenate(tensors)), Len(images))
                /\ bpc' = "returned"
    /\ UNCHANGED <<images, single_results, ovars, pvars, cvars, svars>>

NextBatch ==
    \/ \E imgs \in SeqsUpTo(Images, MaxImages) : Submit(imgs)
    \/ RecognizeEach
    \/ recognize_batch

SpecBatch == Init /\ [][NextBatch]_vars

\* ------------------------------------------------------------------ claims: batches
\* C9: for any list of images, recognize_batch returns a list of the same length
\* whose i-th result equals the result of recognize on the i-th image alone.
C9_BatchEqualsEach ==
    (bpc \in {"returned", "ValueError"}) =>
        /\ bpc = "returned"
        /\ Len(batch_results) = Len(images)
        /\ \A i \in 1..Len(images) : batch_results[i] = single_results[i]

\* C9 (what holds): recognize_batch raises exactly on the empty list; on every
\* other list it returns, item by item, what recognize returns.
C9_NonEmptyBatchEqualsEach ==
    /\ bpc = "ValueError" <=> (bpc # "idle" /\ images = <<>> /\ Len(single_results) = 0
                                 /\ bpc # "each")
    /\ bpc = "returned" =>
          /\ images # <<>>
          /\ Len(batch_results) = Len(images)
          /\ \A i \in 1..Len(images) : batch_results[i] = recognize(images[i])
          /\ batch_results = single_results

C9_Witness ==
    /\ bpc = "returned"
    /\ Len(images) = MaxImages
    /\ images[1] # images[2]
    /\ batch_results[1] # batch_results[2]

\* ------------------------------------------------------------------ cropper
\* A BoundingBox as a rectangle [x, y, w, h], in pixels
Positions == {<<100, 50>>, <<300, 50>>, <<300, 55>>, <<100, 60>>, <<100, 100>>}
Widths == {5, 40, 500}
Heights == {20}
BoundingBoxes == {[x |-> p[1], y |-> p[2], w |-> w, h |-> h] :
                     p \in Positions, w \in Widths, h \in Heights}
Paddings == {0, 5}
min_crop_size == <<10, 10>>
max_aspect_ratio == 20

RECURSIVE SumHeights(_)
SumHeights(boxes) ==
    IF boxes = <<>> THEN 0 ELSE Head(boxes).h + SumHeights(Tail(boxes))

\* "Calculate Y-coordinate threshold (e.g., mean box height / 2)"
RowThreshold(boxes) == (SumHeights(boxes) \div Len(boxes)) \div 2

\* "Boxes with |Y1 - Y2| < threshold are in same row"
SameRow(a, b, threshold) == Abs(a.y - b.y) < threshold

\* 1. Group boxes into rows: a box joins the first row whose first box is within
\* the threshold, and opens a new row otherwise
PlaceInRow(rows, b, threshold) ==
    LET fits == {r \in 1..Len(rows) : SameRow(rows[r][1], b, threshold)}
    IN  IF fits = {} THEN Append(rows, <<b>>)
        ELSE LET r == CHOOSE q \in fits : \A o \in fits : q <= o
             IN  [rows EXCEPT ![r] = Append(@, b)]

RECURSIVE GroupRows(_, _, _)
GroupRows(rows, boxes, threshold) ==
    IF boxes = <<>> THEN rows
    ELSE GroupRows(PlaceInRow(rows, Head(boxes), threshold), Tail(boxes), threshold)

\* 2. Within each row, sort boxes by X-coordinate (left to right); the sort is
\* stable
RECURSIVE InsertByX(_, _)
InsertByX(row, b) ==
    IF row = <<>> THEN <<b>>
    ELSE IF b.x < Head(row).x THEN <<b>> \o row
    ELSE <<Head(row)>> \o InsertByX(Tail(row), b)

RECURSIVE SortRowByX(_, _)
SortRowByX(done, row) ==
    IF row = <<>> THEN done ELSE SortRowByX(InsertByX(done, Head(row)), Tail(row))

MinY(row) == CHOOSE y \in {row[i].y : i \in 1..Len(row)} :
                 \A i \in 1..Len(row) : y <= row[i].y

\* 3. Sort rows by minimum Y-coordinate (top to bottom)
RECURSIVE InsertByMinY(_, _)
InsertByMinY(rows, row) ==
    IF rows = <<>> THEN <<row>>
    ELSE IF MinY(row) < MinY(Head(rows)) THEN <<row>> \o rows
    ELSE <<Head(rows)>> \o InsertByMinY(Tail(rows), row)

RECURSIVE InsertionSortRows(_, _)
InsertionSortRows(done, rows) ==
    IF rows = <<>> THEN done
    ELSE InsertionSortRows(InsertByMinY(done, Head(rows)), Tail(rows))

RowsAsGrouped(rows) == rows
SortRowsByMinY(rows) == InsertionSortRows(<<>>, rows)

\* the rows, one after the other
RECURSIVE Flatten(_)
Flatten(rows) == IF rows = <<>> THEN <<>> ELSE Head(rows) \o Flatten(Tail(rows))

\* sort_boxes_spatial(boxes, "top-to-bottom-left-to-right")
sort_boxes_spatial(boxes) ==
    IF boxes = <<>> THEN <<>>
    ELSE LET rows == GroupRows(<<>>, boxes, RowThreshold(boxes))
             sorted_rows == [r \in 1..Len(rows) |-> SortRowByX(<<>>, rows[r])]
         IN  Flatten(SortRowsByMinY(sorted_rows))

\* A CroppedRegion: the crop with its padding, clipped at the image's origin
CroppedRegion(bbox, pad, index) ==
    LET x_start == IF bbox.x - pad < 0 THEN 0 ELSE bbox.x - pad
        y_start == IF bbox.y - pad < 0 THEN 0 ELSE bbox.y - pad
    IN  [bbox |-> bbox,
         position |-> <<x_start, y_start>>,
         size |-> <<bbox.x + bbox.w + pad - x_start, bbox.y + bbox.h + pad - y_start>>,
         index |-> index]

\* extract_regions(image, bounding_boxes, padding), sort_by_position = True: the
\* index is the order index after sorting, from 0
extract_regions_result(boxes, pad) ==
    LET sorted == sort_boxes_spatial(boxes)
    IN  [i \in 1..Len(sorted) |-> CroppedRegion(sorted[i], pad, i - 1)]

\* Too small, too wide (w/h > 20.0) or too tall (w/h < 0.05)
InvalidCrop(c) ==
    \/ c.size[1] < min_crop_size[1]
    \/ c.size[2] < min_crop_size[2]
    \/ c.size[1] > max_aspect_ratio * c.size[2]
    \/ 100 * c.size[1] < 5 * c.size[2]

RECURSIVE KeepValid(_)
KeepValid(cs) ==
    IF cs = <<>> THEN <<>>
    ELSE (IF InvalidCrop(Head(cs)) THEN <<>> ELSE <<Head(cs)>>) \o KeepValid(Tail(cs))

FilterAndRenumber(cs) ==
    LET kept == KeepValid(cs)
    IN  [i \in 1..Len(kept) |-> [kept[i] EXCEPT !.index = i - 1]]
filter_invalid_crops_result(cs) == KeepValid(cs)

extract_regions(boxes, pad) ==
    /\ kpc = "idle"
    /\ bounding_boxes' = boxes
    /\ padding' = pad
    /\ regions' = extract_regions_result(boxes, pad)
    /\ kpc' = "extracted"
    /\ UNCHANGED <<valid_crops, not_kvars>>

filter_invalid_crops ==
    /\ kpc = "extracted"
    /\ valid_crops' = filter_invalid_crops_result(regions)
    /\ kpc' = "filtered"
    /\ UNCHANGED <<bounding_boxes, padding, regions, not_kvars>>

DistinctBoxes(boxes) == \A i, j \in 1..Len(boxes) : i # j => boxes[i] # boxes[j]

NextCropper ==
    \/ /\ kpc = "idle"
       /\ \E boxes \in SeqsUpTo(BoundingBoxes, MaxBoxes), pad \in Paddings :
             DistinctBoxes(boxes) /\ extract_regions(boxes, pad)
    \/ filter_invalid_crops

SpecCropper == Init /\ [][NextCropper]_vars

\* ------------------------------------------------------------------ claims: cropper
\* The regions fall into distinct row bands: being in the same row is transitive
DistinctRowBands(boxes) ==
    LET t == RowThreshold(boxes)
        n == Len(boxes)
    IN  \A i, j, k \in 1..n :
            (SameRow(boxes[i], boxes[j], t) /\ SameRow(boxes[j], boxes[k], t))
                => SameRow(boxes[i], boxes[k], t)

BandMinY(boxes, b) ==
    LET t == RowThreshold(boxes)
        ys == {boxes[i].y : i \in {k \in 1..Len(boxes) : SameRow(boxes[k], b, t)}}
    IN  CHOOSE y \in ys : \A o \in ys : y <= o

\* C12: for regions with distinct row bands, in any input order, the crops come
\* out in row-major order: rows by ascending minimum y and, within a row, by
\* ascending x; every region is output once.
C12_RowMajorOrder ==
    (kpc # "idle" /\ bounding_boxes # <<>> /\ DistinctRowBands(bounding_boxes)) =>
        LET t == RowThreshold(bounding_boxes)
            out == [i \in 1..Len(regions) |-> regions[i].bbox]
        IN  /\ Len(out) = Len(bounding_boxes)
            /\ Range(out) = Range(bounding_boxes)
            /\ \A i, j \in 1..Len(out) : i < j =>
                  IF SameRow(out[i], out[j], t)
                  THEN out[i].x <= out[j].x
                  ELSE BandMinY(bounding_boxes, out[i]) < BandMinY(bounding_boxes, out[j])

\* The regions (100,100), (300,50), (100,50), given bottom row first, came out as
\* (100,50), (300,50), (100,100).
C12_Witness ==
    /\ kpc = "extracted"
    /\ Len(bounding_boxes) = 3
    /\ <<bounding_boxes[1].x, bounding_boxes[1].y>> = <<100, 100>>
    /\ <<bounding_boxes[2].x, bounding_boxes[2].y>> = <<300, 50>>
    /\ <<bounding_boxes[3].x, bounding_boxes[3].y>> = <<100, 50>>
    /\ [i \in 1..3 |-> <<regions[i].bbox.x, regions[i].bbox.y>>]
          = << <<100, 50>>, <<300, 50>>, <<100, 100>> >>

ScoredTxns == [date : {1}, description : {"ATM"}, debit : {0, 5}, credit : {0, 2},
               balance : {0, 2, 5, 7}]

\* a / b rounded towards zero, b # 0
Quotient(a, b) ==
    LET q == Abs(a) \div Abs(b)
    IN  IF (a < 0) = (b < 0) THEN q ELSE -q

\* accuracy = 1.0 - abs(expected - actual) / expected, in thousandths
TxnAccuracy(txns, i) ==
    LET expected == ExpectedBalance(txns, i)
        actual == txns[i].balance
    IN  1000 - Quotient(1000 * Abs(expected - actual), expected)

RECURSIVE SumAccuracy(_, _)
SumAccuracy(txns, i) ==
    IF i > Len(txns) THEN 0 ELSE TxnAccuracy(txns, i) + SumAccuracy(txns, i + 1)

\* calculate_balance_accuracy(transactions): the average over the transactions
\* that have a previous balance; the division by `expected` raises when it is 0
calculate_balance_accuracy_result(txns) ==
    IF \E i \in 2..Len(txns) : ExpectedBalance(txns, i) = 0
    THEN [raised |-> "ZeroDivisionError", value |-> 0]
    ELSE [raised |-> "none", value |-> SumAccuracy(txns, 2) \div (Len(txns) - 1)]

calculate_balance_accuracy(txns) ==
    /\ fpc = "idle"
    /\ Len(txns) >= 2
    /\ scored_transactions' = txns
    /\ balance_accuracy' = calculate_balance_accuracy_result(txns)
    /\ fpc' = "scored"
    /\ UNCHANGED not_fvars

NextScore ==
    /\ fpc = "idle"
    /\ \E txns \in SeqsUpTo(ScoredTxns, MaxTxns) : calculate_balance_accuracy(txns)

SpecScore == Init /\ [][NextScore]_vars

\* ------------------------------------------------------------------ claims: balance accuracy
\* C19: for a transaction list that satisfies balance[i] = balance[i-1] +
\* credit[i] - debit[i] exactly at every index, the validator reports no balance
\* error and balance_accuracy is 1.0.
C19_ExactBalancesScoreOne ==
    (/\ fpc = "scored"
     /\ \A i \in 2..Len(scored_transactions) :
           scored_transactions[i].balance
              = scored_transactions[i - 1].balance + scored_transactions[i].credit
                   - scored_transactions[i].debit)
    => /\ validate_balance_consistency(scored_transactions) = <<>>
       /\ balance_accuracy = [raised |-> "none", value |-> 1000]

\* ------------------------------------------------------------------ LedgerParser
\* A cell text is a sequence of tokens: digit groups, letters and single symbols.
\* "NGN" stands for the naira sign and <<>> for a cell with no recognized text.
DigitGroups == {"1", "15", "01", "02", "03", "00", "24", "32", "56", "234", "500", "1234",
                "2000", "2024", "10000", "50000", "58000", "60000"}
DigitValue == [g \in DigitGroups |->
                 CASE g = "1" -> 1 [] g = "15" -> 15 [] g = "01" -> 1 [] g = "00" -> 0
                   [] g = "02" -> 2 [] g = "03" -> 3
                   [] g = "24" -> 24 [] g = "32" -> 32
                   [] g = "2000" -> 2000 [] g = "10000" -> 10000 [] g = "50000" -> 50000
                   [] g = "58000" -> 58000 [] g = "60000" -> 60000
                   [] g = "56" -> 56 [] g = "234" -> 234 [] g = "500" -> 500
                   [] g = "1234" -> 1234 [] g = "2024" -> 2024]
MonthNames == {"Jan"}
MonthValue == [m \in MonthNames |-> 1]

RECURSIVE Pow10(_)
Pow10(n) == IF n = 0 THEN 1 ELSE 10 * Pow10(n - 1)

\* the tokens of ts that are not in drop, in order
RECURSIVE Without(_, _)
Without(ts, drop) ==
    IF ts = <<>> THEN <<>>
    ELSE IF Head(ts) \in drop THEN Without(Tail(ts), drop)
    ELSE <<Head(ts)>> \o Without(Tail(ts), drop)

\* str.replace(old, new) for a one-token old
Replace(ts, old, new) == [i \in 1..Len(ts) |-> IF ts[i] = old THEN new ELSE ts[i]]

\* str.strip()
RECURSIVE LStrip(_)
LStrip(ts) == IF ts # <<>> /\ Head(ts) = " " THEN LStrip(Tail(ts)) ELSE ts
RECURSIVE RStrip(_)
RStrip(ts) ==
    IF ts # <<>> /\ ts[Len(ts)] = " " THEN RStrip(SubSeq(ts, 1, Len(ts) - 1)) ELSE ts
Strip(ts) == RStrip(LStrip(ts))

\* value of a run of digit groups read as one number
RECURSIVE DigitsValue(_)
DigitsValue(ts) ==
    IF ts = <<>> THEN 0
    ELSE DigitsValue(SubSeq(ts, 1, Len(ts) - 1)) * Pow10(Len(ts[Len(ts)]))
            + DigitValue[ts[Len(ts)]]

RECURSIVE DigitsLen(_)
DigitsLen(ts) == IF ts = <<>> THEN 0 ELSE Len(Head(ts)) + DigitsLen(Tail(ts))

AllDigits(ts) == ts # <<>> /\ \A i \in 1..Len(ts) : ts[i] \in DigitGroups

\* Decimal(amount_str): [sign] digits [. digits]; anything else raises
\* decimal.InvalidOperation. The value is kept in cents.
DecimalParts(ts) ==
    LET neg == ts # <<>> /\ Head(ts) = "-"
        body == IF neg THEN Tail(ts) ELSE ts
        dots == {i \in 1..Len(body) : body[i] = "."}
        dot == IF dots = {} THEN Len(body) + 1 ELSE CHOOSE i \in dots : \A j \in dots : i <= j
    IN  [neg |-> neg, int |-> SubSeq(body, 1, dot - 1),
         frac |-> SubSeq(body, dot + 1, Len(body)), dotted |-> dots # {}]

DecimalValid(ts) ==
    LET p == DecimalParts(ts)
    IN  /\ AllDigits(p.int)
        /\ IF p.dotted THEN AllDigits(p.frac) ELSE p.frac = <<>>

DecimalCents(ts) ==
    LET p == DecimalParts(ts)
        cents == IF p.frac = <<>> THEN 0
                 ELSE (DigitsValue(p.frac) * 100) \div Pow10(DigitsLen(p.frac))
        magnitude == DigitsValue(p.int) * 100 + cents
    IN  IF p.neg THEN -magnitude ELSE magnitude

CurrencySymbols == {"NGN", "$", ","}

\* parse_amount up to the call of Decimal: the cleaned text
CleanAmount(amount_str) ==
    LET no_symbols == Without(amount_str, CurrencySymbols)
        no_parens == IF \E i \in 1..Len(no_symbols) : no_symbols[i] = "("
                     THEN Without(Replace(no_symbols, "(", "-"), {")"})
                     ELSE no_symbols
        \* 'DR' in amount_str.upper(), then replace('DR', '').replace('dr', '')
        no_dr == IF \E i \in 1..Len(no_parens) : no_parens[i] \in {"DR", "dr", "Dr"}
                 THEN <<"-">> \o Without(no_parens, {"DR", "dr"})
                 ELSE no_parens
    IN  Strip(no_dr)

\* parse_amount(amount_str): no handler around Decimal(amount_str)
parse_amount(amount_str) ==
    IF DecimalValid(CleanAmount(amount_str))
    THEN [raised |-> "none", value |-> DecimalCents(CleanAmount(amount_str))]
    ELSE [raised |-> "InvalidOperation", value |-> 0]

\* ---- dateutil.parser.parse(date_str, dayfirst=True) ----
None == -1
DateSeparators == {"/", "-", " "}

\* the year, month and day values found in the text, in order
ymd(tokens) ==
    [i \in 1..Len(tokens) |->
        IF tokens[i] \in MonthNames THEN MonthValue[tokens[i]] ELSE DigitValue[tokens[i]]]

\* position of the month name, and of a number of more than two digits (a year
\* with its century), 0 when there is none
mstridx(tokens) ==
    IF \E i \in 1..Len(tokens) : tokens[i] \in MonthNames
    THEN CHOOSE i \in 1..Len(tokens) : tokens[i] \in MonthNames ELSE 0
ystridx(tokens) ==
    IF \E i \in 1..Len(tokens) : tokens[i] \in DigitGroups /\ Len(tokens[i]) > 2
    THEN CHOOSE i \in 1..Len(tokens) : tokens[i] \in DigitGroups /\ Len(tokens[i]) > 2
    ELSE 0

Ymd(y, m, d) == [year |-> y, month |-> m, day |-> d]

\* _ymd.resolve_ymd(yearfirst=False, dayfirst=True)
resolve_ymd(v, m, y) ==
    IF Len(v) = 3 /\ m # 0 /\ y # 0
    THEN Ymd(v[y], v[m], v[CHOOSE d \in 1..3 : d # m /\ d # y])
    ELSE IF Len(v) = 2 /\ m # 0 /\ y # 0 THEN Ymd(v[y], v[m], None)
    ELSE IF Len(v) = 1 /\ m # 0 THEN Ymd(None, v[1], None)
    ELSE IF Len(v) = 1 THEN (IF v[1] > 31 THEN Ymd(v[1], None, None) ELSE Ymd(None, None, v[1]))
    ELSE IF Len(v) = 2 /\ m # 0
         THEN (IF v[3 - m] > 31 THEN Ymd(v[3 - m], v[m], None) ELSE Ymd(None, v[m], v[3 - m]))
    ELSE IF Len(v) = 2
         THEN (IF v[1] > 31 THEN Ymd(v[1], v[2], None)
               ELSE IF v[2] > 31 THEN Ymd(v[2], v[1], None)
               ELSE IF v[2] <= 12 THEN Ymd(None, v[2], v[1])
               ELSE Ymd(None, v[1], v[2]))
    ELSE IF m = 1 THEN (IF v[2] > 31 THEN Ymd(v[2], v[1], v[3]) ELSE Ymd(v[3], v[1], v[2]))
    ELSE IF m = 2 THEN (IF v[1] > 31 THEN Ymd(v[1], v[2], v[3]) ELSE Ymd(v[3], v[2], v[1]))
    ELSE IF m = 3 THEN (IF v[2] > 31 THEN Ymd(v[2], v[3], v[1]) ELSE Ymd(v[1], v[3], v[2]))
    ELSE IF v[1] > 31 \/ y = 1
         THEN (IF v[3] <= 12 THEN Ymd(v[1], v[3], v[2]) ELSE Ymd(v[1], v[2], v[3]))
    ELSE IF v[1] > 12 \/ v[2] <= 12 THEN Ymd(v[3], v[2], v[1])
    ELSE Ymd(v[3], v[1], v[2])

KeepYear(year, now) == year

\* convertyear: a year without its century is taken within 50 years of today
convertyear(year, now) ==
    IF year >= 100 THEN year
    ELSE LET y == year + (now[1] \div 100) * 100
         IN  IF y >= now[1] + 50 THEN y - 100
             ELSE IF y < now[1] - 50 THEN y + 100
             ELSE y

\* datetime(year, month, day) raises ValueError outside the calendar
DaysInMonth(year, month) ==
    IF month = 2 THEN (IF year % 4 = 0 /\ (year % 100 # 0 \/ year % 400 = 0) THEN 29 ELSE 28)
    ELSE IF month \in {4, 6, 9, 11} THEN 30 ELSE 31

\* parse_date(date_str): dateutil's parse with dayfirst=True, which takes every
\* field the text does not give from the current date; None (NoDay) on failure
parse_date(date_str, now) ==
    LET tokens == Without(date_str, DateSeparators)
        known == \A i \in 1..Len(tokens) : tokens[i] \in DigitGroups \cup MonthNames
        r == resolve_ymd(ymd(tokens), mstridx(tokens), ystridx(tokens))
        year == IF r.year = None THEN now[1]
                ELSE IF ystridx(tokens) # 0 THEN r.year ELSE convertyear(r.year, now)
        month == IF r.month = None THEN now[2] ELSE r.month
        day == IF r.day = None THEN now[3] ELSE r.day
    IN  IF /\ Len(tokens) \in 1..3
           /\ known
           /\ year \in 1..9999
           /\ month \in 1..12
           /\ day \in 1..DaysInMonth(year, month)
        THEN <<year, month, day>> ELSE NoDay

DateStrs == {<<>>, <<"01", "/", "01", "/", "2024">>, <<"01", "-", "Jan", "-", "2024">>,
             <<"2024", "-", "01", "-", "01">>, <<"01", "/", "01", "/", "24">>,
             <<"32", "/", "01", "/", "2024">>, <<"15", " ", "Jan">>}
AmountStrs == {<<>>, <<"NGN", "1", ",", "234", ".", "56">>, <<"(", "500", ".", "00", ")">>,
               <<"1234", " ", "DR">>, <<"1", ",", "234", ".", "56", " ", "Dr">>,
               <<"1", ",", "234", ".", "56", " ", "Cr">>, <<"1234", ".", "56", "-">>,
               <<"abc">>}
\* a row varies in its date or in its amount
TextRows == {row \in [date : DateStrs, description : {"POS"}, debit : AmountStrs,
                      credit : {<<>>}, balance : {<<>>}] :
                row.date = <<"01", "/", "01", "/", "2024">> \/ row.debit = <<>>}
Days == {<<2024, 12, 31>>, <<2025, 1, 1>>}

\* an amount cell that has text goes through parse_amount
AmountCell(amount_str, absent) ==
    IF Len(amount_str) = 0 THEN [raised |-> "none", value |-> absent]
    ELSE parse_amount(amount_str)

\* _parse_row: the date cell goes through parse_date and the debit, credit and
\* balance cells through parse_amount; a row without a date gives no Transaction
_parse_row(row, now) ==
    LET date == parse_date(row.date, now)
        debit == AmountCell(row.debit, 0)
        credit == AmountCell(row.credit, 0)
        balance == AmountCell(row.balance, NoBalance)
    IN  IF debit.raised # "none" THEN [raised |-> debit.raised, txn |-> <<>>]
        ELSE IF credit.raised # "none" THEN [raised |-> credit.raised, txn |-> <<>>]
        ELSE IF balance.raised # "none" THEN [raised |-> balance.raised, txn |-> <<>>]
        ELSE IF date = NoDay THEN [raised |-> "none", txn |-> <<>>]
        ELSE [raised |-> "none",
              txn |-> <<[date |-> date, description |-> row.description,
                         debit |-> debit.value, credit |-> credit.value,
                         balance |-> balance.value]>>]

\* the loop of parse_transactions from row i on: an exception of _parse_row
\* leaves the loop and the method
RECURSIVE ParseFrom(_, _, _, _)
ParseFrom(rows, i, now, appended) ==
    IF i > Len(rows) THEN [raised |-> "none", transactions |-> appended]
    ELSE LET r == _parse_row(rows[i], now)
         IN  IF r.raised # "none" THEN [raised |-> r.raised, transactions |-> <<>>]
             ELSE ParseFrom(rows, i + 1, now, appended \o r.txn)

parse_transactions_result(rows, now) == ParseFrom(rows, 1, now, <<>>)

parse_transactions(rows, now) ==
    /\ ppc = "idle"
    /\ text_rows' = rows
    /\ today' = now
    /\ parsed' = parse_transactions_result(rows, now)
    /\ ppc' = "parsed"
    /\ UNCHANGED <<today_again, parsed_again, not_lvars>>

\* the same rows parsed once more, at whatever date it is by then
parse_transactions_again(now) ==
    /\ ppc = "parsed"
    /\ today_again' = now
    /\ parsed_again' = parse_transactions_result(text_rows, now)
    /\ ppc' = "parsed_again"
    /\ UNCHANGED <<text_rows, today, parsed, not_lvars>>

NextParse ==
    \/ /\ ppc = "idle"
       /\ \E rows \in SeqsUpTo(TextRows, MaxRows), now \in Days : parse_transactions(rows, now)
    \/ \E now \in Days : parse_transactions_again(now)

SpecParse == Init /\ [][NextParse]_vars

\* ------------------------------------------------------------------ claims: LedgerParser
\* a row whose date or amount cannot be parsed
BadRow(row) ==
    \/ parse_date(row.date, today) = NoDay
    \/ row.debit # <<>> /\ parse_amount(row.debit).raised # "none"

\* C16: for any sequence of table rows, no exception escapes the parser, a row
\* whose date or amount cannot be parsed is skipped, and every other row is still
\* parsed and emitted in its original relative order.
C16_BadRowNeverAborts ==
    ppc = "parsed" =>
        LET good == SelectSeq(text_rows, LAMBDA row : ~BadRow(row))
        IN  /\ parsed.raised = "none"
            /\ Len(parsed.transactions) = Len(good)
            /\ \A i \in 1..Len(good) :
                  parsed.transactions[i] = _parse_row(good[i], today).txn[1]

\* C11: two runs on identical input and identical configuration produce the
\* same transactions in the same order, whatever the wall-clock time.
C11_SameInputSameOutput ==
    ppc = "parsed_again" => parsed_again = parsed

\* ------------------------------------------------------------------ multi-line descriptions
\* Rows of the reconstructed table: {column: text}, "" for a cell with no text
TableRows == [date : {"", "01/01/2024"},
              description : {"", "Transfer to", "John Smith Account"},
              debit : {"", "1000"}, credit : {""}, balance : {"", "49000"}]

\* Detection: the row has a description but no date, or a description but no amounts
Empty(cell) == Len(cell) = 0
NoAmounts(row) == Empty(row.debit) /\ Empty(row.credit) /\ Empty(row.balance)
NoMovement(row) == Empty(row.debit) /\ Empty(row.credit)

IsContinuationWithBalance(row) ==
    /\ ~Empty(row.description)
    /\ (Empty(row.date) \/ NoMovement(row))

IsContinuation(row) ==
    /\ ~Empty(row.description)
    /\ (Empty(row.date) \/ NoAmounts(row))

JoinDirect(description, continuation) == description \o continuation

\* "Transfer to" + "John Smith Account" -> "Transfer to John Smith Account"
JoinWithSpace(description, continuation) == description \o " " \o continuation

\* Action: append the description to the previous row
AppendToPrevious(rows, row) ==
    [rows EXCEPT ![Len(rows)].description = JoinWithSpace(@, row.description)]

handle_multiline_descriptions(rows) ==
    /\ mpc = "idle"
    /\ table_rows' = rows
    /\ merged_rows' = <<>>
    /\ row_i' = 1
    /\ mpc' = "merging"
    /\ UNCHANGED not_mvars

\* one row of the table: a continuation row is merged into the previous row and
\* removed; with no previous row the source does not say, it is kept or dropped
MergeRow ==
    /\ mpc = "merging"
    /\ row_i <= Len(table_rows)
    /\ LET row == table_rows[row_i]
       IN  IF ~IsContinuation(row) THEN merged_rows' = Append(merged_rows, row)
           ELSE IF merged_rows # <<>> THEN merged_rows' = AppendToPrevious(merged_rows, row)
           ELSE \/ merged_rows' = <<row>>
                \/ merged_rows' = <<>>
    /\ row_i' = row_i + 1
    /\ UNCHANGED <<table_rows, mpc, not_mvars>>

MergeReturn ==
    /\ mpc = "merging"
    /\ row_i > Len(table_rows)
    /\ mpc' = "merged"
    /\ UNCHANGED <<table_rows, merged_rows, row_i, not_mvars>>

NextMerge ==
    \/ /\ mpc = "idle"
       /\ \E rows \in SeqsUpTo(TableRows, MaxRows) : handle_multiline_descriptions(rows)
    \/ MergeRow
    \/ MergeReturn

SpecMerge == Init /\ [][NextMerge]_vars

bos_token_id == 0
eos_token_id == 2
Letters == {3, 4}
Vocab == {eos_token_id} \cup Letters

\* log_softmax(next_logits) as whole numbers, no two tokens alike
LogProbs == {-5, -6, -10}
Rankings == {lp \in [Vocab -> LogProbs] : \A s, t \in Vocab : s # t => lp[s] # lp[t]}
\* the decoder session: the log-probabilities of the next token, given the last one
Decoders == [{bos_token_id} \cup Letters -> Rankings]

Last(sequence) == sequence[Len(sequence)]
Completed(beam) == Last(beam.sequence) = eos_token_id

\* key(x) < key(y) for key = x[1] / len(x[0]) ** length_penalty, at the default
\* length_penalty of 1.0
KeyLess(x, y) == x.score * Len(y.sequence) < y.score * Len(x.sequence)

\* np.argsort(log_probs): the tokens in ascending order of log-probability
RECURSIVE argsort(_, _)
argsort(log_probs, tokens) ==
    IF tokens = {} THEN <<>>
    ELSE LET lowest == CHOOSE t \in tokens : \A u \in tokens : log_probs[t] <= log_probs[u]
         IN  <<lowest>> \o argsort(log_probs, tokens \ {lowest})

\* the last n elements of a sequence: seq[-n:]
LastN(seq, n) == SubSeq(seq, Max({1, Len(seq) - n + 1}), Len(seq))

\* the candidates one beam contributes: itself when completed, else one per top-k token
Expand(beam, dec, width) ==
    IF Completed(beam) THEN <<beam>>
    ELSE LET log_probs == dec[Last(beam.sequence)]
             top_k_indices == LastN(argsort(log_probs, Vocab), width)
         IN  [k \in 1..Len(top_k_indices) |->
                [sequence |-> Append(beam.sequence, top_k_indices[k]),
                 score |-> beam.score + log_probs[top_k_indices[k]]]]

RECURSIVE Candidates(_, _, _)
Candidates(bs, dec, width) ==
    IF bs = <<>> THEN <<>>
    ELSE Expand(Head(bs), dec, width) \o Candidates(Tail(bs), dec, width)

\* sorted(candidates, key=...): ascending and stable
RECURSIVE InsertByKey(_, _)
InsertByKey(sorted, x) ==
    IF sorted = <<>> THEN <<x>>
    ELSE IF KeyLess(x, Last(sorted))
         THEN Append(InsertByKey(SubSeq(sorted, 1, Len(sorted) - 1), x), Last(sorted))
         ELSE Append(sorted, x)

RECURSIVE SortedByKey(_)
SortedByKey(cs) ==
    IF cs = <<>> THEN <<>>
    ELSE InsertByKey(SortedByKey(SubSeq(cs, 1, Len(cs) - 1)), Last(cs))

beam_search_decode(dec, width, length) ==
    /\ dpc = "idle"
    /\ decoder' = dec
    /\ beam_width' = width
    /\ max_length' = length
    /\ beams' = <<[sequence |-> <<bos_token_id>>, score |-> 0]>>
    /\ completed' = {}
    /\ step' = 0
    /\ dpc' = "searching"
    /\ UNCHANGED <<best, greedy, not_dvars>>

\* one iteration of `for step in range(max_length)`
BeamStep ==
    /\ dpc = "searching"
    /\ step < max_length
    /\ LET candidates == Candidates(beams, decoder, beam_width)
           kept == LastN(SortedByKey(candidates), beam_width)
       IN  /\ beams' = kept
           /\ completed' = completed \cup {candidates[k] : k \in {j \in 1..Len(candidates) :
                                                                   Completed(candidates[j])}}
           /\ dpc' = IF \A k \in 1..Len(kept) : Completed(kept[k]) THEN "finished"
                     ELSE "searching"
    /\ step' = step + 1
    /\ UNCHANGED <<decoder, beam_width, max_length, best, greedy, not_dvars>>

\* best_sequence, best_score, best_probs = beams[-1]
BeamReturn ==
    /\ \/ dpc = "finished"
       \/ dpc = "searching" /\ step = max_length
    /\ best' = Last(beams)
    /\ dpc' = "returned"
    /\ UNCHANGED <<decoder, beam_width, max_length, beams, completed, step, greedy, not_dvars>>

\* the loop of the greedy pseudo-code with `left` iterations to go: the argmax
\* token is appended until it is EOS
RECURSIVE GreedyFrom(_, _, _)
GreedyFrom(beam, dec, left) ==
    IF left = 0 \/ (Len(beam.sequence) > 1 /\ Completed(beam)) THEN beam
    ELSE GreedyFrom(Expand(beam, dec, 1)[1], dec, left - 1)

greedy_decode_result(dec, length) ==
    GreedyFrom([sequence |-> <<bos_token_id>>, score |-> 0], dec, length)

\* greedy decoding of the crop that beam search has just decoded
greedy_decode ==
    /\ dpc = "returned"
    /\ greedy' = greedy_decode_result(decoder, max_length)
    /\ dpc' = "both"
    /\ UNCHANGED <<decoder, beam_width, max_length, beams, completed, step, best, not_dvars>>

NextBeam ==
    \/ /\ dpc = "idle"
       /\ \E dec \in Decoders, width \in 1..MaxBeamWidth, length \in 1..MaxLength :
             beam_search_decode(dec, width, length)
    \/ BeamStep
    \/ BeamReturn
    \/ greedy_decode

SpecBeam == Init /\ [][NextBeam]_vars

\* ------------------------------------------------------------------ claims: beam search
\* C20: beam_search_decode stops when all beams are complete or max_length steps
\* have been taken, and returns, among all candidates that completed during the
\* search, the one with the highest length-penalized score.
C20_ReturnsBestCompleted ==
    /\ dpc = "returned" =>
          \/ step = max_length
          \/ \A k \in 1..Len(beams) : Completed(beams[k])
    /\ (dpc = "returned" /\ completed # {}) =>
          /\ best \in completed
          /\ \A c \in completed : ~KeyLess(best, c)

\* the generated tokens of a result: its probabilities list has one entry per token
\* after BOS
TokenCount(beam) == Len(beam.sequence) - 1

\* C21: for the same crop and the same model, beam search with beam_width >= 3
\* never returns a result whose geometric-mean token confidence is lower than
\* that of the result of greedy decoding. The geometric mean of the token
\* probabilities is exp(score / tokens), so the means compare as score / tokens.
C21_BeamNotBelowGreedy ==
    (dpc = "both" /\ beam_width >= 3) =>
        best.score * TokenCount(greedy) >= greedy.score * TokenCount(best)

\* C22: parse_amount returns 1234.56 for the naira amount "1,234.56", -500.00
\* for "(500.00)", -1234.56 for "1,234.56 Dr" and -1234.56 for "1234.56-".
C22_AmountExamples ==
    \A i \in 1..Len(text_rows) :
        LET amount_str == text_rows[i].debit
            expected ==
                CASE amount_str = <<"NGN", "1", ",", "234", ".", "56">> -> 123456
                  [] amount_str = <<"(", "500", ".", "00", ")">> -> -50000
                  [] amount_str = <<"1", ",", "234", ".", "56", " ", "Dr">> -> -123456
                  [] amount_str = <<"1234", ".", "56", "-">> -> -123456
                  [] OTHER -> 0
        IN  (ppc = "parsed" /\ expected # 0) =>
                /\ parsed.raised = "none"
                /\ parse_amount(amount_str) = [raised |-> "none", value |-> expected]

\* C23: parse_date maps "01/01/2024", "01-Jan-2024", "2024-01-01" and "01/01/24"
\* to 1 January 2024, and returns a parse failure for "32/01/2024".
C23_DateExamples ==
    ppc = "parsed" =>
        /\ \A i \in 1..Len(text_rows) :
              /\ text_rows[i].date \in {<<"01", "/", "01", "/", "2024">>,
                                        <<"01", "-", "Jan", "-", "2024">>,
                                        <<"2024", "-", "01", "-", "01">>,
                                        <<"01", "/", "01", "/", "24">>}
                    => parse_date(text_rows[i].date, today) = <<2024, 1, 1>>
              /\ text_rows[i].date = <<"32", "/", "01", "/", "2024">>
                    => parse_date(text_rows[i].date, today) = NoDay
        /\ (Len(text_rows) = 1 /\ text_rows[1].debit = <<>>) =>
              parsed = [raised |-> "none",
                        transactions |->
                            IF text_rows[1].date \in {<<>>, <<"32", "/", "01", "/", "2024">>}
                            THEN <<>>
                            ELSE <<[date |-> IF text_rows[1].date = <<"15", " ", "Jan">>
                                             THEN <<today[1], 1, 15>> ELSE <<2024, 1, 1>>,
                                    description |-> "POS", debit |-> 0, credit |-> 0,
                                    balance |-> NoBalance]>>]

\* two of the formats, parsed in one table to the same date
C23_Witness ==
    /\ ppc = "parsed"
    /\ text_rows = <<[date |-> <<"2024", "-", "01", "-", "01">>, description |-> "POS",
                      debit |-> <<>>, credit |-> <<>>, balance |-> <<>>],
                     [date |-> <<"01", "/", "01", "/", "24">>, description |-> "POS",
                      debit |-> <<>>, credit |-> <<>>, balance |-> <<>>]>>
    /\ Len(parsed.transactions) = 2
    /\ parsed.transactions[1].date = <<2024, 1, 1>>
    /\ parsed.transactions[2].date = <<2024, 1, 1>>

\* ------------------------------------------------------------------ document confidence
\* Confidences and scores are in thousandths.
Scores == {500, 1000}
ConfidenceLists == SeqsUpTo(Scores, MaxResults) \ {<<>>}
Findings(kind, n) == [i \in 1..n |-> ValidationError(kind, i)]
Reports == {[valid |-> e = 0, errors |-> Findings("amount", e),
             warnings |-> Findings("duplicate", w)] : e \in 0..2, w \in 0..1}
Ledgers == [detection_confidences : ConfidenceLists,
            recognition_confidences : ConfidenceLists,
            validation_result : Reports,
            balance_accuracy : Scores,
            completeness_score : Scores]

RECURSIVE Sum(_)
Sum(seq) == IF seq = <<>> THEN 0 ELSE Head(seq) + Sum(Tail(seq))
Mean(seq) == Sum(seq) \div Len(seq)

\* return 0.2 * det_conf + 0.4 * rec_conf + 0.4 * val_conf
compute_document_confidence_result(l) ==
    LET det_conf == Mean(l.detection_confidences)
        rec_conf == Mean(l.recognition_confidences)
        val_conf == IF l.validation_result.valid THEN 1000 ELSE 500
    IN  (2 * det_conf + 4 * rec_conf + 4 * val_conf) \div 10

compute_document_confidence(l) ==
    /\ gpc = "idle"
    /\ ledger' = l
    /\ document_confidence' = compute_document_confidence_result(l)
    /\ gpc' = "scored"
    /\ UNCHANGED <<recommendation, not_gvars>>

RecommendAbove(confidence) ==
    IF confidence > 900 THEN "AUTO_APPROVE"
    ELSE IF confidence > 600 THEN "MANUAL_REVIEW"
    ELSE "REJECT"

\* AUTO_APPROVE: confidence >= 0.9; MANUAL_REVIEW: 0.6 <= confidence < 0.9;
\* REJECT: confidence < 0.6
Recommend(confidence) ==
    IF confidence >= 900 THEN "AUTO_APPROVE"
    ELSE IF confidence >= 600 THEN "MANUAL_REVIEW"
    ELSE "REJECT"

create_confidence_report ==
    /\ gpc = "scored"
    /\ recommendation' = Recommend(document_confidence)
    /\ gpc' = "reported"
    /\ UNCHANGED <<ledger, document_confidence, not_gvars>>

NextConfidence ==
    \/ /\ gpc = "idle"
       /\ \E l \in Ledgers : compute_document_confidence(l)
    \/ create_confidence_report

SpecConfidence == Init /\ [][NextConfidence]_vars

\* ------------------------------------------------------------------ claims: document confidence
\* C24: document_confidence equals 0.4 * mean(recognition confidence)
\* + 0.3 * validation_score + 0.2 * balance_accuracy + 0.1 * completeness_score,
\* with validation_score = max(0, 1 - 0.1 * |errors| - 0.05 * |warnings|); no
\* other term contributes.
C24_WeightedSum ==
    gpc # "idle" =>
        LET validation_score ==
                Max({0, 1000 - 100 * Len(ledger.validation_result.errors)
                          - 50 * Len(ledger.validation_result.warnings)})
        IN  document_confidence
               = (4 * Mean(ledger.recognition_confidences) + 3 * validation_score
                    + 2 * ledger.balance_accuracy + ledger.completeness_score) \div 10

OpeningRow == [date |-> <<"01", "/", "01", "/", "2024">>, description |-> "Opening Balance",
               debit |-> <<>>, credit |-> <<>>, balance |-> <<"50000", ".", "00">>]
SalaryRow == [date |-> <<"02", "/", "01", "/", "2024">>, description |-> "Salary Credit",
              debit |-> <<>>, credit |-> <<"10000", ".", "00">>,
              balance |-> <<"60000", ".", "00">>]
WithdrawalRow == [date |-> <<"03", "/", "01", "/", "2024">>, description |-> "ATM Withdrawal",
                  debit |-> <<"2000", ".", "00">>, credit |-> <<>>,
                  balance |-> <<"58000", ".", "00">>]
ContinuationRow == [date |-> <<>>, description |-> "Main Branch",
                    debit |-> <<>>, credit |-> <<>>, balance |-> <<>>]
WrongBalanceRow == [date |-> <<"03", "/", "01", "/", "2024">>, description |-> "ATM Withdrawal",
                    debit |-> <<"2000", ".", "00">>, credit |-> <<>>,
                    balance |-> <<"60000", ".", "00">>]
LedgerRows == {OpeningRow, SalaryRow, WithdrawalRow, ContinuationRow, WrongBalanceRow}
\* boxes below the detection_threshold of 0.6 are not kept
DetectionScores == {600, 1000}

\* handle_multiline_descriptions on a whole table; a continuation row with no
\* row before it is dropped
RECURSIVE MergeRows(_, _)
MergeRows(rows, kept) ==
    IF rows = <<>> THEN kept
    ELSE IF ~IsContinuation(Head(rows)) THEN MergeRows(Tail(rows), Append(kept, Head(rows)))
    ELSE IF kept # <<>> THEN MergeRows(Tail(rows), AppendToPrevious(kept, Head(rows)))
    ELSE MergeRows(Tail(rows), kept)

\* a datetime as a day number, for the validator
Ordinal(date) == date[1] * 372 + date[2] * 31 + date[3]
Dated(txns) == [i \in 1..Len(txns) |-> [txns[i] EXCEPT !.date = Ordinal(@)]]

\* transactions -> validation report -> document confidence
Scored(p, report, rows, det_conf) ==
    IF p.raised # "none"
    THEN [raised |-> p.raised, transactions |-> <<>>, validation_result |-> NoReport,
          document_confidence |-> 0]
    ELSE [raised |-> "none", transactions |-> p.transactions,
          validation_result |-> report,
          document_confidence |->
              compute_document_confidence_result(
                  [detection_confidences |-> <<det_conf>>,
                   recognition_confidences |-> [i \in 1..Max({1, Len(rows)}) |-> 1000],
                   validation_result |-> report])]

\* rows -> transactions -> validation report -> document confidence; each
\* stage's output is a value computed once and handed to the next stage
extract_result(rows, det_conf, now) ==
    LET outcomes ==
            UNION {{Scored(p, report, rows, det_conf) :
                        report \in {validate_transactions(Dated(p.transactions))}} :
                     p \in {parse_transactions_result(MergeRows(rows, <<>>), now)}}
    IN  CHOOSE outcome \in outcomes : TRUE

parse_ledger_rows(rows, det_conf, now) ==
    /\ epc = "idle"
    /\ ledger_rows' = rows
    /\ detection_confidence' = det_conf
    /\ extraction' = extract_result(rows, det_conf, now)
    /\ epc' = "extracted"
    /\ UNCHANGED not_evars

NextLedger ==
    /\ epc = "idle"
    /\ \E rows \in SeqsUpTo(LedgerRows, MaxLedgerRows), det_conf \in DetectionScores,
          now \in Days : parse_ledger_rows(rows, det_conf, now)

SpecLedger == Init /\ [][NextLedger]_vars

ImportStatuses == {"PENDING", "PROCESSING", "COMPLETED", "COMPLETED_WITH_ERRORS", "FAILED"}

TerminalStatuses == {"COMPLETED", "COMPLETED_WITH_ERRORS", "FAILED"}

Word == 65536

DecimalChars == <<"0", "1", "2", "3", "4", "5", "6", "7", "8", "9">>

\* String.prototype.charCodeAt for the characters of the modelled files
charCodeAt(c) ==
    CASE c = " " -> 32 [] c = "-" -> 45 [] c = "." -> 46 [] c = "|" -> 124
      [] c = "0" -> 48 [] c = "1" -> 49 [] c = "2" -> 50 [] c = "3" -> 51
      [] c = "4" -> 52 [] c = "5" -> 53 [] c = "6" -> 54 [] c = "7" -> 55
      [] c = "8" -> 56 [] c = "9" -> 57
      [] c = "A" -> 65 [] c = "M" -> 77 [] c = "O" -> 79 [] c = "P" -> 80
      [] c = "S" -> 83 [] c = "T" -> 84
      [] c = "a" -> 97 [] c = "m" -> 109 [] c = "o" -> 111 [] c = "p" -> 112
      [] c = "s" -> 115 [] c = "t" -> 116

toLowerCase(str) ==
    [i \in 1..Len(str) |->
        CASE str[i] = "A" -> "a" [] str[i] = "M" -> "m" [] str[i] = "O" -> "o"
          [] str[i] = "P" -> "p" [] str[i] = "S" -> "s" [] str[i] = "T" -> "t"
          [] OTHER -> str[i]]

\* str.replace(/\s+/g, ' '): every run of spaces becomes one space
RECURSIVE CollapseSpaces(_)
CollapseSpaces(str) ==
    IF Len(str) < 2 THEN str
    ELSE IF str[1] = " " /\ str[2] = " " THEN CollapseSpaces(Tail(str))
    ELSE <<Head(str)>> \o CollapseSpaces(Tail(str))

RECURSIVE DecimalString(_)
DecimalString(n) ==
    IF n < 10 THEN <<DecimalChars[n + 1]>>
    ELSE Append(DecimalString(n \div 10), DecimalChars[(n % 10) + 1])

\* Number.prototype.toFixed(2) of an amount of whole cents
toFixed(cents) ==
    (IF cents < 0 THEN <<"-">> ELSE <<>>)
        \o DecimalString(Abs(cents) \div 100) \o <<".">>
        \o <<DecimalChars[((Abs(cents) % 100) \div 10) + 1],
             DecimalChars[(Abs(cents) % 10) + 1]>>

\* hash = (hash << 5) - hash + char; hash = hash & hash: 31 * hash + char,
\* wrapped to 32 bits
HashStep(hash, char) ==
    LET low == 31 * hash[2] + char
    IN  <<(31 * hash[1] + (low \div Word)) % Word, low % Word>>

RECURSIVE HashFrom(_, _)
HashFrom(hash, combined) ==
    IF combined = <<>> THEN hash
    ELSE HashFrom(HashStep(hash, charCodeAt(Head(combined))), Tail(combined))

\* Math.abs of a 32-bit integer: a word pair with the sign bit set is negative
MathAbs(hash) ==
    IF hash[1] < Word \div 2 THEN hash
    ELSE <<Word - 1 - hash[1] + (IF hash[2] = 0 THEN 1 ELSE 0), (Word - hash[2]) % Word>>

\* Number.prototype.toString(36): the base-36 digits, most significant first
RECURSIVE toString36(_)
toString36(n) ==
    IF n[1] = 0 /\ n[2] < 36 THEN <<n[2]>>
    ELSE LET rest == (n[1] % 36) * Word + n[2]
         IN  Append(toString36(<<n[1] \div 36, rest \div 36>>), rest % 36)

generateHash(date, description, amount) ==
    LET dateStr == date
        cleanDesc == Strip(CollapseSpaces(toLowerCase(description)))
        amountStr == toFixed(amount)
        combined == dateStr \o <<"|">> \o cleanDesc \o <<"|">> \o amountStr
    IN  toString36(MathAbs(HashFrom(<<0, 0>>, combined)))

\* normalizeTransaction: raw.date is what parseDate made of the date cell (its
\* ISO day, <<>> for null) and raw.amount what parseAmount made of the amount cell
NormalizationFails(raw) ==
    \/ raw.date = <<>>
    \/ Strip(raw.description) = <<>>
    \/ raw.amount = 0

normalizeTransaction(raw) ==
    [date |-> raw.date, description |-> Strip(raw.description),
     amount |-> Abs(raw.amount),
     hash |-> generateHash(raw.date, Strip(raw.description), raw.amount)]

RECURSIVE normalizeTransactions(_)
normalizeTransactions(rawTransactions) ==
    IF rawTransactions = <<>> THEN [normalized |-> <<>>, errors |-> 0]
    ELSE LET rest == normalizeTransactions(Tail(rawTransactions))
         IN  IF NormalizationFails(Head(rawTransactions))
             THEN [rest EXCEPT !.errors = @ + 1]
             ELSE [rest EXCEPT !.normalized =
                       <<normalizeTransaction(Head(rawTransactions))>> \o @]

HashesOf(txns) == {txns[i].hash : i \in 1..Len(txns)}

\* the transactions whose hash is not in seen and has not occurred before them
RECURSIVE FirstOccurrences(_, _)
FirstOccurrences(txns, seen) ==
    IF txns = <<>> THEN <<>>
    ELSE IF Head(txns).hash \in seen THEN FirstOccurrences(Tail(txns), seen)
    ELSE <<Head(txns)>> \o FirstOccurrences(Tail(txns), seen \cup {Head(txns).hash})

deduplicateTransactions(txns) ==
    LET unique == FirstOccurrences(txns, {})
    IN  [unique |-> unique, duplicates |-> Len(txns) - Len(unique)]

RECURSIVE NotIn(_, _)
NotIn(txns, existingHashSet) ==
    IF txns = <<>> THEN <<>>
    ELSE IF Head(txns).hash \in existingHashSet THEN NotIn(Tail(txns), existingHashSet)
    ELSE <<Head(txns)>> \o NotIn(Tail(txns), existingHashSet)

\* ---- the files
IsoDay == <<"2", "0", "2", "4", "-", "0", "1", "-", "0", "5">>

RawPos == [date |-> IsoDay, description |-> <<"P", "O", "S">>, amount |-> -45000]

RawPosAgain == [date |-> IsoDay, description |-> <<"p", "o", "s", " ">>, amount |-> -45000]

RawAtm == [date |-> IsoDay, description |-> <<"A", "T", "M">>, amount |-> -45000]

RawZero == [date |-> IsoDay, description |-> <<"A", "T", "M">>, amount |-> 0]

\* what parseCSV / parseExcel return for the stored file
ParseResults ==
    { [success |-> TRUE, transactions |-> <<RawPos, RawPosAgain>>, errors |-> 0],
      [success |-> TRUE, transactions |-> <<RawAtm, RawPos, RawZero>>, errors |-> 0],
      [success |-> FALSE, transactions |-> <<>>, errors |-> 1] }

\* ---- POST /api/upload
POST_upload(parseResult) ==
    /\ \E id \in Imports :
          /\ import_status[id] = NoRecord
          /\ \A other \in Imports : other < id => import_status[other] # NoRecord
          /\ import_status' = [import_status EXCEPT ![id] = "PENDING"]
          /\ import_file' = [import_file EXCEPT ![id] = parseResult]
    /\ UNCHANGED <<stored_transactions, handlers, process_count>>
    /\ UNCHANGED not_ivars

\* ---- POST /api/process/:importId
Responded(code) ==
    [IdleHandler EXCEPT !.response = code]

\* the handler up to its call of processImport, which runs up to findUnique
POST_process(r, importId) ==
    /\ handlers[r].pc = "idle"
    /\ LET importRecord == import_status[importId]
       IN  IF importRecord = NoRecord
           THEN /\ handlers' = [handlers EXCEPT ![r] = Responded(404)]
                /\ UNCHANGED process_count
           ELSE IF importRecord # "PENDING"
           THEN /\ handlers' = [handlers EXCEPT ![r] = Responded(400)]
                /\ UNCHANGED process_count
           ELSE /\ handlers' = [handlers EXCEPT ![r] =
                                   [IdleHandler EXCEPT !.pc = "findUnique",
                                                       !.importId = importId]]
                /\ process_count' = [process_count EXCEPT ![importId] = @ + 1]
    /\ UNCHANGED <<import_status, import_file, stored_transactions>>
    /\ UNCHANGED not_ivars

\* processImport: findUnique answers, the update to PROCESSING is sent
findUnique(r) ==
    /\ handlers[r].pc = "findUnique"
    /\ handlers' = [handlers EXCEPT ![r].pc =
                       IF import_status[handlers[r].importId] = NoRecord
                       THEN "catch" ELSE "update_processing"]
    /\ UNCHANGED <<import_status, import_file, stored_transactions, process_count>>
    /\ UNCHANGED not_ivars

update_processing(r) ==
    /\ handlers[r].pc = "update_processing"
    /\ import_status' = [import_status EXCEPT ![handlers[r].importId] = "PROCESSING"]
    /\ handlers' = [handlers EXCEPT ![r].pc = "getFile"]
    /\ UNCHANGED <<import_file, stored_transactions, process_count>>
    /\ UNCHANGED not_ivars

\* getFile answers (or throws when downloaded is FALSE); the file is parsed,
\* normalized and deduplicated, and saveTransactions sends its findMany
getFile(r, downloaded) ==
    /\ handlers[r].pc = "getFile"
    /\ LET parseResult == import_file[handlers[r].importId]
           norm == normalizeTransactions(parseResult.transactions)
           dedup == deduplicateTransactions(norm.normalized)
       IN  handlers' = [handlers EXCEPT ![r] =
               IF ~downloaded THEN [@ EXCEPT !.pc = "catch"]
               ELSE IF ~parseResult.success /\ Len(parseResult.transactions) = 0
               THEN [@ EXCEPT !.pc = "update_failed"]
               ELSE [@ EXCEPT !.pc = "findMany",
                              !.unique = dedup.unique,
                              !.finalStatus =
                                  IF parseResult.errors > 0 \/ norm.errors > 0
                                  THEN "COMPLETED_WITH_ERRORS" ELSE "COMPLETED"]]
    /\ UNCHANGED <<import_status, import_file, stored_transactions, process_count>>
    /\ UNCHANGED not_ivars

\* the complete-failure branch: status FAILED, success false returned, and
\* the route answers after categorizing the import's (no) transactions
update_failed(r) ==
    /\ handlers[r].pc = "update_failed"
    /\ import_status' = [import_status EXCEPT ![handlers[r].importId] = "FAILED"]
    /\ handlers' = [handlers EXCEPT ![r] = Responded(200)]
    /\ UNCHANGED <<import_file, stored_transactions, process_count>>
    /\ UNCHANGED not_ivars

\* saveTransactions: findMany answers with the stored hashes (or throws when
\* answered is FALSE), the new transactions are those not among them
findMany(r, answered) ==
    /\ handlers[r].pc = "findMany"
    /\ LET existingHashSet ==
               HashesOf(stored_transactions) \cap HashesOf(handlers[r].unique)
           newTransactions == NotIn(handlers[r].unique, existingHashSet)
       IN  handlers' = [handlers EXCEPT ![r] =
               IF ~answered THEN [@ EXCEPT !.pc = "catch"]
               ELSE IF Len(newTransactions) = 0 THEN [@ EXCEPT !.pc = "update_final"]
               ELSE [@ EXCEPT !.pc = "createMany",
                              !.newTransactions = newTransactions]]
    /\ UNCHANGED <<import_status, import_file, stored_transactions, process_count>>
    /\ UNCHANGED not_ivars

\* createMany inserts the batch (or throws and inserts nothing when inserted is FALSE)
createMany(r, inserted) ==
    /\ handlers[r].pc = "createMany"
    /\ stored_transactions' =
           IF inserted
           THEN stored_transactions \o
                    [i \in 1..Len(handlers[r].newTransactions) |->
                        [importId |-> handlers[r].importId,
                         hash |-> handlers[r].newTransactions[i].hash]]
           ELSE stored_transactions
    /\ handlers' = [handlers EXCEPT ![r].pc = IF inserted THEN "update_final" ELSE "catch"]
    /\ UNCHANGED <<import_status, import_file, process_count>>
    /\ UNCHANGED not_ivars

\* the final status update; the route then categorizes and answers
update_final(r) ==
    /\ handlers[r].pc = "update_final"
    /\ import_status' = [import_status EXCEPT ![handlers[r].importId] =
                             handlers[r].finalStatus]
    /\ handlers' = [handlers EXCEPT ![r] = Responded(200)]
    /\ UNCHANGED <<import_file, stored_transactions, process_count>>
    /\ UNCHANGED not_ivars

\* the mutant leaves the status as it is
StatusKept(status) == status

\* the status processImport's catch block writes
StatusOnError(status) == "FAILED"

\* processImport's catch block, then the route's: answer 500
catch(r) ==
    /\ handlers[r].pc = "catch"
    /\ import_status' = [import_status EXCEPT ![handlers[r].importId] = StatusOnError(@)]
    /\ handlers' = [handlers EXCEPT ![r] = Responded(500)]
    /\ UNCHANGED <<import_file, stored_transactions, process_count>>
    /\ UNCHANGED not_ivars

\* the steps a request in flight takes without a client doing anything
Resume(r) ==
    \/ findUnique(r)
    \/ update_processing(r)
    \/ \E downloaded \in BOOLEAN : getFile(r, downloaded)
    \/ update_failed(r)
    \/ \E answered \in BOOLEAN : findMany(r, answered)
    \/ \E inserted \in BOOLEAN : createMany(r, inserted)
    \/ update_final(r)
    \/ catch(r)

NextImport ==
    \/ \E parseResult \in ParseResults : POST_upload(parseResult)
    \/ \E r \in Requests, importId \in Imports : POST_process(r, importId)
    \/ \E r \in Requests : Resume(r)

SpecImport == Init /\ [][NextImport]_vars

\* every request in flight is resumed: the event loop runs each continuation
\* whose awaited call has settled, and every awaited call settles
SpecImportFair == SpecImport /\ \A r \in Requests : WF_vars(Resume(r))

\* ------------------------------------------------------------------ claims: import processing
\* C27: for any import, processImport is executed at most once, whatever
\* number of process requests, concurrent or repeated, name that import.
C27_ProcessedAtMostOnce ==
    \A id \in Imports : process_count[id] <= 1

\* C28: an import's status only moves PENDING -> PROCESSING -> COMPLETED,
\* COMPLETED_WITH_ERRORS or FAILED; a terminal status never changes again.
C28_StatusOrder ==
    [][\A id \in Imports :
          \/ import_status'[id] = import_status[id]
          \/ import_status[id] = NoRecord /\ import_status'[id] = "PENDING"
          \/ import_status[id] = "PENDING" /\ import_status'[id] = "PROCESSING"
          \/ import_status[id] = "PROCESSING" /\ import_status'[id] \in TerminalStatuses]_vars

\* C29: no two stored transactions of the business share a hash.
C29_NoSharedHash ==
    \A i, j \in 1..Len(stored_transactions) :
        i # j => stored_transactions[i].hash # stored_transactions[j].hash

====
